---- MODULE Spec2Model ----
(***************************************************************************)
(* Quiz Conquest: submission consistency and round finalization.           *)
(*                                                                         *)
(* The database functions run as PostgreSQL transactions at READ COMMITTED.*)
(* Every SQL statement is one step: it reads the committed tables plus the *)
(* transaction's own uncommitted writes, it waits while a row it must      *)
(* write is locked by another transaction, and a conditional UPDATE        *)
(* re-evaluates its WHERE clause on the row version that is committed when *)
(* the lock is granted.  Uncommitted writes are kept in the caller's       *)
(* record and are applied to the tables by the step that commits.          *)
(***************************************************************************)
EXTENDS Integers, Sequences, FiniteSets, TLC

\* ------------------------------------------------------------------ bounds
MaxCalls == 3
MaxClock == 1
MaxStarts == 2

\* ------------------------------------------------------- program constants
TopQualifyCount == 25
SubmitMaxRetries == 1
BulkMaxRetries == 2
\* rounds.duration_minutes INTEGER DEFAULT 15; the clock counts minutes
DurationMinutes == 15
\* if (questionCount < 15)
RequiredQuestions == 15

\* ---------------------------------------------------------------- domains
Calls == 1..MaxCalls
Participants == {1}
Rounds == {1}
\* the rounds of an event that goes on after round 1
RoundNumbers == {1, 2}
Questions == {1, 2}
Tokens == {"t1"}
NULL == "NULL"
\* a NULL timestamp or interval: below every value the clock can produce,
\* negative intervals included
NoTime == 0 - 99

\* questions.round_number and questions.correct_option of the stored key
QuestionRound(q) == 1
CorrectOption(q) == IF q = 1 THEN "A" ELSE "B"

\* exam_sessions.submission_type CHECK constraint / v_valid_types
ValidTypes == {"manual", "auto_timer", "auto_violation", "auto_round_end"}

\* responses.selected_option CHECK constraint
ValidOptions == {"A", "B", "C", "D"}

\* UPPER(TRIM(x)) on the option strings the clients of the model send
UpperTrim(x) ==
    CASE x = "a" -> "A"
      [] x = "b" -> "B"
      [] x = " b " -> "B"
      [] OTHER -> x

\* ------------------------------------------------------------------ inputs
\* answers arrays of request bodies: question_id 0 stands for a missing id
AnswerInputs ==
    { << [question_id |-> 1, selected_option |-> "a"] >>,
      << [question_id |-> 2, selected_option |-> " b "] >>,
      << [question_id |-> 1, selected_option |-> "E"] >> }

SubmissionTypeInputs == {"manual", "auto_violation", "bogus"}

\* submissionType of the exam page: the Submit button and the countdown timer
PageTypeInputs == {"manual", "auto_timer"}

\* answers arrays whose entries also assert their own correctness
ClaimedInputs ==
    { << [question_id |-> 1, selected_option |-> "a", is_correct |-> FALSE] >>,
      << [question_id |-> 1, selected_option |-> "b", is_correct |-> TRUE] >>,
      << [question_id |-> 1, selected_option |-> "a", is_correct |-> TRUE],
         [question_id |-> 2, selected_option |-> "a", is_correct |-> TRUE] >>,
      << [question_id |-> 1, selected_option |-> "b", is_correct |-> TRUE],
         [question_id |-> 2, selected_option |-> " b ", is_correct |-> FALSE] >> }

\* answers arrays that name a question more than once, and one that does not
RepeatedInputs ==
    { << [question_id |-> 1, selected_option |-> "a"],
         [question_id |-> 1, selected_option |-> "a"],
         [question_id |-> 1, selected_option |-> "a"] >>,
      << [question_id |-> 1, selected_option |-> "b"],
         [question_id |-> 1, selected_option |-> "a"] >>,
      << [question_id |-> 1, selected_option |-> "a"],
         [question_id |-> 2, selected_option |-> " b "] >> }

\* topCount of a POST /round/shortlist body: none (0), or a cutoff
TopCountInputs == {0, 1, 2}

\* p_top_count of a call of perform_shortlisting
TopInputs == {1, 2}

\* answers arrays whose question_id is text that is not a UUID (a negative
\* number stands for it), and one that is well formed
MalformedInputs ==
    { << [question_id |-> 0 - 1, selected_option |-> "a"] >>,
      << [question_id |-> 1, selected_option |-> "a"],
         [question_id |-> 0 - 1, selected_option |-> "b"] >>,
      << [question_id |-> 1, selected_option |-> "a"] >> }

\* attempt_token of a POST /submit body: a token, none, or not a UUID
TokenInputs == Tokens \cup {"", "not-a-uuid"}

\* time_taken_seconds of a POST /submit body
TimeInputs == {3, 8}

VARIABLES
    clock,          \* NOW()
    event_state,    \* the singleton row of event_state
    rounds,         \* rounds[r]
    participants,   \* participants[p]
    exam_sessions,  \* exam_sessions[p][r]
    responses,      \* responses[p][q]: selected_option or NULL (no row)
    scores,         \* scores[p][r]
    submissions,    \* submissions[t][r], keyed by attempt_token (V4)
    results,        \* results[t][r] (V4)
    question_count, \* question_count[r]: COUNT(*) of questions of round r
    questions,      \* questions[r]: the ids of the questions of round r
    questionsCache, \* the questions cache of the server process
    calls,          \* calls[c]: one request (route handler + RPC) each
    admin,          \* the administrator's StartRound request
    starting        \* starting[s]: a StartExam request, or the last one answered

vars == << clock, event_state, rounds, participants, exam_sessions,
           responses, scores, submissions, results, question_count,
           questions, questionsCache,
           calls, admin, starting >>

db == << event_state, rounds, participants, exam_sessions, responses, scores,
         submissions, results, question_count, questions >>

v4 == << submissions, results >>

\* ------------------------------------------------------------------- rows
NoSession ==
    [ exists |-> FALSE, started_at |-> NoTime, is_submitted |-> FALSE,
      submitted_at |-> NoTime, submission_type |-> NULL,
      tab_switch_count |-> 0, time_taken_seconds |-> NoTime ]

NoScore ==
    [ exists |-> FALSE, correct_answers |-> 0, time_taken_seconds |-> NoTime,
      rank |-> 0, qualified_for_next |-> FALSE ]

NoSubmission == [ exists |-> FALSE, answers |-> << >>, time_taken_seconds |-> 0 ]

NoRow == [ exists |-> FALSE, score |-> 0, time_taken_seconds |-> 0,
           rank |-> 0, qualified_for_next |-> FALSE ]

NoResult == [ status |-> 0, success |-> FALSE, tags |-> {} ]

IdleCall ==
    [ op |-> "none", pc |-> "idle", p |-> 1, round |-> 0, answers |-> << >>,
      token |-> "", time |-> 0, during |-> {}, running |-> FALSE,
      stype |-> NULL, arrived |-> 0, v_current |-> FALSE,
      attempt |-> 0, v_now |-> 0, v_session |-> NoSession,
      v_new_count |-> 0, auto |-> {}, result |-> NoResult,
      timeTakenSeconds |-> NoTime, top |-> 0 ]

\* the administrator's POST /round/start: the request being served, or the
\* last one answered; started tells whether its round had left 'pending'
\* when it arrived
IdleAdmin == [ pc |-> "idle", round |-> 0, started |-> FALSE, result |-> NoResult ]

IdleStart == [ pc |-> "idle", p |-> 1, round |-> 0, is_disqualified |-> FALSE,
               is_qualified |-> TRUE, current_round |-> 1, result |-> NoResult ]

\* ---------------------------------------------------------- answer payloads
Range(s) == { s[i] : i \in DOMAIN s }

\* POST /submit-exam and POST /tab-switch: answersJson
PrepareAnswers(answers) ==
    LET Keep(a) == a.question_id # 0 /\ a.selected_option # ""
        kept == SelectSeq(answers, Keep)
    IN  [ i \in DOMAIN kept |->
            [ question_id |-> kept[i].question_id,
              selected_option |-> UpperTrim(kept[i].selected_option) ] ]

\* the question ids an INSERT INTO responses ... SELECT writes
AnswerKeys(answers) == { a.question_id : a \in Range(answers) }

\* the INSERT raises: CHECK (selected_option IN ...), REFERENCES questions(id),
\* or ON CONFLICT DO UPDATE touching one row twice
InsertRaises(answers) ==
    \/ \E a \in Range(answers) : UpperTrim(a.selected_option) \notin ValidOptions
    \/ \E a \in Range(answers) : a.question_id \notin Questions
    \/ \E i, j \in DOMAIN answers :
          i # j /\ answers[i].question_id = answers[j].question_id

\* INSERT INTO responses ... ON CONFLICT (participant_id, question_id) DO UPDATE
UpsertResponses(rows, answers) ==
    [ q \in Questions |->
        IF q \in AnswerKeys(answers)
        THEN UpperTrim((CHOOSE a \in Range(answers) : a.question_id = q).selected_option)
        ELSE rows[q] ]

\* --------------------------------------------------------------- row locks
\* A transaction holds the lock of every row it has written until it commits.
SessionLocks(c) ==
    CASE calls[c].pc = "ts_insert" -> { << calls[c].p, calls[c].round >> }
      [] calls[c].pc = "fz_score"  -> { << p, calls[c].round >> : p \in calls[c].auto }
      [] OTHER -> {}

ResponseLocks(c) ==
    IF calls[c].pc = "sx_update"
    THEN { << calls[c].p, q >> : q \in AnswerKeys(calls[c].answers) }
    ELSE {}

RoundLocks(c) ==
    IF calls[c].pc \in {"fz_auto", "fz_score"} THEN { calls[c].round } ELSE {}

EventLocked(c) == calls[c].pc = "fz_score"

SessionFree(c, p, r) == \A d \in Calls \ {c} : << p, r >> \notin SessionLocks(d)
ResponsesFree(c, p, keys) ==
    \A d \in Calls \ {c} : \A q \in keys : << p, q >> \notin ResponseLocks(d)
RoundFree(c, r) == \A d \in Calls \ {c} : r \notin RoundLocks(d)
EventFree(c) == \A d \in Calls \ {c} : ~EventLocked(d)

SessionOf(p, r) == IF r \in DOMAIN rounds THEN exam_sessions[p][r] ELSE NoSession


\* the question rows of one upload: fresh ids, question_number 1..count
QuestionIds(upload, count) == { << upload, n >> : n \in 1..count }

\* the questions table as the first upload of each round leaves it
Uploaded(count) == [ r \in DOMAIN count |-> QuestionIds(1, count[r]) ]

\* questionsCache.data: null, or the one array of question ids
NoData == << >>

\* let questionsCache = { round: 0, data: null, timestamp: 0 }
EmptyCache == [ round |-> 0, data |-> NoData, timestamp |-> 0 ]

\* ------------------------------------------------------------------- Init
\* the tables as the schema and its seed rows leave them, for the rounds R,
\* and S the StartExam requests that can be served at the same time
Setup(R, S) ==
    /\ clock = 0
    /\ event_state = [ current_round |-> 0, round_status |-> "not_started",
                       round_ends_at |-> NoTime ]
    /\ rounds = [ r \in R |->
                    [ status |-> "pending", shortlisting_completed |-> FALSE ] ]
    /\ participants = [ p \in Participants |->
                          [ is_disqualified |-> FALSE, is_qualified |-> TRUE,
                            current_round |-> 1 ] ]
    /\ exam_sessions = [ p \in Participants |-> [ r \in R |-> NoSession ] ]
    /\ responses = [ p \in Participants |-> [ q \in Questions |-> NULL ] ]
    /\ scores = [ p \in Participants |-> [ r \in R |-> NoScore ] ]
    /\ submissions = [ t \in Tokens |-> [ r \in R |-> NoSubmission ] ]
    /\ results = [ t \in Tokens |-> [ r \in R |-> NoRow ] ]
    /\ calls = [ c \in Calls |-> IdleCall ]
    /\ admin = IdleAdmin
    /\ starting = [ s \in S |-> IdleStart ]

\* one round, its questions uploaded
Init ==
    /\ Setup(Rounds, {1})
    /\ question_count = [ r \in Rounds |-> RequiredQuestions ]
    /\ questions = Uploaded(question_count)
    /\ questionsCache = EmptyCache

\* NOW() advances
Tick ==
    /\ clock < MaxClock
    /\ clock' = clock + 1
    /\ UNCHANGED << question_count, questions, questionsCache, event_state, rounds, participants, exam_sessions,
                    responses, scores, calls, admin, starting, v4 >>

\* the handler has answered: only the request and its response are kept
Done(c, status, success, tags) ==
    [ IdleCall EXCEPT !.op = calls[c].op, !.pc = "done", !.p = calls[c].p,
                      !.round = calls[c].round, !.answers = calls[c].answers,
                      !.token = calls[c].token, !.during = calls[c].during,
                      !.running = calls[c].running,
                      !.stype = calls[c].stype, !.arrived = calls[c].arrived,
                      !.v_current = calls[c].v_current, !.top = calls[c].top,
                      !.result = [ status |-> status, success |-> success,
                                   tags |-> tags ] ]

\* request slots are taken in order of arrival
CanInvoke(c) ==
    /\ calls[c].pc = "idle"
    /\ c > 1 => calls[c - 1].pc # "idle"

\* History kept with a request: the requests that were being served when it
\* arrived (during), whether the round it ends was active then (running), and,
\* for the requests of the exam page, their submissionType and arrival time.
InFlight == { d \in Calls : calls[d].pc \notin {"idle", "done"} }

\* The exam page sends its requests once StartExam has created the session.
InExam(p) == SessionOf(p, event_state.current_round).exists

\* --------------------------------------------------- POST /round/start
\* The event has been activated; roundNumber is one of the rounds.
StartRoundRequest(r) ==
    /\ admin.pc = "idle"
    /\ admin' = [ pc |-> IF r > 1 THEN "sr_prev" ELSE "sr_count", round |-> r,
                  started |-> (rounds[r].status # "pending"),
                  result |-> NoResult ]
    /\ UNCHANGED << clock, questionsCache, db, calls, starting >>

\* the handler answers
StartRoundAnswer(status, success) ==
    [ admin EXCEPT !.pc = "idle",
                   !.result = [ status |-> status, success |-> success,
                                tags |-> {} ] ]

\* Verify previous rounds completed
StartRoundPrev ==
    /\ admin.pc = "sr_prev"
    /\ LET prevRound == rounds[admin.round - 1] IN
       admin' = IF prevRound.status # "completed" \/ ~prevRound.shortlisting_completed
                THEN StartRoundAnswer(400, FALSE)
                ELSE [ admin EXCEPT !.pc = "sr_count" ]
    /\ UNCHANGED << clock, questionsCache, db, calls, starting >>

\* Verify 15 questions exist
StartRoundCount ==
    /\ admin.pc = "sr_count"
    /\ admin' = IF question_count[admin.round] < RequiredQuestions
                THEN StartRoundAnswer(400, FALSE)
                ELSE [ admin EXCEPT !.pc = "sr_event" ]
    /\ UNCHANGED << clock, questionsCache, db, calls, starting >>

\* Update event state
StartRoundEvent ==
    /\ admin.pc = "sr_event"
    /\ \A d \in Calls : ~EventLocked(d)
    /\ event_state' = [ current_round |-> admin.round, round_status |-> "running",
                        round_ends_at |-> clock + DurationMinutes ]
    /\ admin' = [ admin EXCEPT !.pc = "sr_round" ]
    /\ UNCHANGED << question_count, questions, questionsCache, clock, rounds, participants, exam_sessions, responses,
                    scores, calls, starting, v4 >>

\* Update round status, then answer
StartRoundRow ==
    /\ admin.pc = "sr_round"
    /\ \A d \in Calls : admin.round \notin RoundLocks(d)
    /\ rounds' = [ rounds EXCEPT ![admin.round].status = "active" ]
    /\ admin' = StartRoundAnswer(200, TRUE)
    /\ UNCHANGED << question_count, questions, questionsCache, clock, event_state, participants, exam_sessions, responses,
                    scores, calls, starting, v4 >>

\* the update of rounds answers with an error: if (roundError) throw roundError
StartRoundRowError ==
    /\ admin.pc = "sr_round"
    /\ admin' = StartRoundAnswer(500, FALSE)
    /\ UNCHANGED << clock, questionsCache, db, calls, starting >>

\* ---------------------------------------------------- POST /start-exam
\* requireParticipant has loaded the participant's row
StartExamRequest(s, p) ==
    /\ starting[s].pc = "idle"
    /\ starting' = [ starting EXCEPT ![s] =
                       [ IdleStart EXCEPT
                           !.pc = "st_event", !.p = p,
                           !.is_disqualified = participants[p].is_disqualified,
                           !.is_qualified = participants[p].is_qualified,
                           !.current_round = participants[p].current_round ] ]
    /\ UNCHANGED << clock, questionsCache, db, calls, admin >>

\* the handler answers: only the request and its response are kept
StartExamAnswer(s, r, status, success, tags) ==
    [ IdleStart EXCEPT !.p = starting[s].p, !.round = r,
                       !.result = [ status |-> status, success |-> success,
                                    tags |-> tags ] ]

\* Get event state; the three rejections
StartExamEvent(s) ==
    /\ starting[s].pc = "st_event"
    /\ starting' = [ starting EXCEPT ![s] =
         IF event_state.round_status # "running"
         THEN StartExamAnswer(s, 0, 400, FALSE, {})
         ELSE IF starting[s].is_disqualified
         THEN StartExamAnswer(s, 0, 403, FALSE, {"disqualified"})
         ELSE IF \/ ~starting[s].is_qualified
                 \/ starting[s].current_round > event_state.current_round
         THEN StartExamAnswer(s, 0, 403, FALSE, {})
         ELSE [ starting[s] EXCEPT !.pc = "st_select",
                                   !.round = event_state.current_round ] ]
    /\ UNCHANGED << clock, questionsCache, db, calls, admin >>

\* Check for existing session (idempotent)
StartExamSelect(s) ==
    /\ starting[s].pc = "st_select"
    /\ starting' = [ starting EXCEPT ![s] =
         IF SessionOf(starting[s].p, starting[s].round).exists
         THEN StartExamAnswer(s, starting[s].round, 200, TRUE, {"resumed"})
         ELSE [ starting[s] EXCEPT !.pc = "st_insert" ] ]
    /\ UNCHANGED << clock, questionsCache, db, calls, admin >>

\* the INSERT overwriting the row of the pair
InsertSessionAgain(row, now) ==
    [ NoSession EXCEPT !.exists = TRUE, !.started_at = now ]

\* INSERT INTO exam_sessions under UNIQUE (participant_id, round_number):
\* error 23505 leaves the row of the pair as it is
InsertSession(row, now) ==
    IF row.exists THEN row
    ELSE [ NoSession EXCEPT !.exists = TRUE, !.started_at = now ]

\* Create new session; on 23505 answer with the session that won the race
\* (the same body as a resume: the tag 23505 only records the path taken)
StartExamInsert(s) ==
    /\ starting[s].pc = "st_insert"
    /\ LET p == starting[s].p
           r == starting[s].round
       IN  /\ exam_sessions' = [ exam_sessions EXCEPT ![p][r] =
                                   InsertSession(@, clock) ]
           /\ starting' = [ starting EXCEPT ![s] =
                IF exam_sessions[p][r].exists
                THEN StartExamAnswer(s, r, 200, TRUE, {"resumed", "23505"})
                ELSE StartExamAnswer(s, r, 200, TRUE, {}) ]
    /\ UNCHANGED << question_count, questions, questionsCache, clock, event_state, rounds, participants, responses,
                    scores, calls, admin, v4 >>

\* ------------------------------ POST /submit-exam -> submit_exam_attempt
InvokeSubmit(c) ==
    /\ CanInvoke(c)
    /\ \E p \in Participants, a \in AnswerInputs :
         /\ InExam(p)
         /\ calls' = [ calls EXCEPT ![c] =
                      [ IdleCall EXCEPT !.op = "submit", !.pc = "sx_select",
                                        !.during = InFlight,
                                        !.p = p, !.answers = PrepareAnswers(a),
                                        !.round = event_state.current_round ] ]
    /\ UNCHANGED << clock, questionsCache, db, admin, starting >>

\* The exam page submits: the Submit button, or the countdown reaching zero.
\* The request's submissionType and arrival time are kept with its response.
InvokeSubmitAt(c) ==
    /\ CanInvoke(c)
    /\ \E p \in Participants, a \in AnswerInputs, t \in PageTypeInputs :
         /\ InExam(p)
         /\ calls' = [ calls EXCEPT ![c] =
                      [ IdleCall EXCEPT !.op = "submit", !.pc = "sx_select",
                                        !.during = InFlight,
                                        !.stype = t, !.arrived = clock,
                                        !.p = p, !.answers = PrepareAnswers(a),
                                        !.round = event_state.current_round ] ]
    /\ UNCHANGED << clock, questionsCache, db, admin, starting >>

\* v_now := NOW(); SELECT * INTO v_session; the two early returns
SubmitSelect(c) ==
    /\ calls[c].pc = "sx_select"
    /\ LET s == SessionOf(calls[c].p, calls[c].round) IN
       calls' = [ calls EXCEPT ![c] =
                    IF ~s.exists THEN Done(c, 400, FALSE, {})
                    ELSE IF s.is_submitted
                    THEN Done(c, 200, TRUE, {"alreadySubmitted"})
                    ELSE [ calls[c] EXCEPT !.pc = "sx_insert",
                                           !.v_now = clock, !.v_session = s ] ]
    /\ UNCHANGED << clock, questionsCache, db, admin, starting >>

\* the RPC failed: withRetry calls it again, then the handler answers 500
SubmitFailed(c) ==
    IF calls[c].attempt < SubmitMaxRetries
    THEN [ calls[c] EXCEPT !.pc = "sx_select", !.attempt = calls[c].attempt + 1 ]
    ELSE Done(c, 500, FALSE, {})

\* STEP 1: bulk upsert of the responses; the rows stay locked
SubmitInsert(c) ==
    /\ calls[c].pc = "sx_insert"
    /\ ResponsesFree(c, calls[c].p, AnswerKeys(calls[c].answers))
    /\ calls' = [ calls EXCEPT ![c] =
                    IF InsertRaises(calls[c].answers)
                    THEN SubmitFailed(c)
                    ELSE [ calls[c] EXCEPT !.pc = "sx_update" ] ]
    /\ UNCHANGED << clock, questionsCache, db, admin, starting >>

\* RETURN jsonb_build_object(... 'time_taken_seconds', v_time_taken ...), which
\* the handler passes on as data.timeTakenSeconds; no other answer of the
\* handler has the field
Submitted(c) ==
    [ Done(c, 200, TRUE, {}) EXCEPT
        !.timeTakenSeconds = calls[c].v_now - calls[c].v_session.started_at ]

FinalType(t) == IF t \in ValidTypes THEN t ELSE "manual"

\* WHERE id = v_session.id AND is_submitted = FALSE
SubmitGuard(row) == row.is_submitted = FALSE

\* p_submission_type: the value kept with the request, or any value a client
\* can send when the request did not keep it
SubmissionTypes(c) ==
    IF calls[c].stype = NULL THEN SubmissionTypeInputs ELSE { calls[c].stype }

\* STEP 2: mark the session submitted, RETURN, commit.  p_submission_type is
\* read by this statement alone, so the request's value is drawn here.
SubmitUpdate(c) ==
    /\ calls[c].pc = "sx_update"
    /\ SessionFree(c, calls[c].p, calls[c].round)
    /\ \E t \in SubmissionTypes(c) :
       LET p == calls[c].p
           r == calls[c].round
           row == exam_sessions[p][r]
       IN  /\ exam_sessions' =
                 IF SubmitGuard(row)
                 THEN [ exam_sessions EXCEPT ![p][r] =
                          [ row EXCEPT
                              !.is_submitted = TRUE,
                              !.submitted_at = calls[c].v_now,
                              !.submission_type = FinalType(t),
                              !.time_taken_seconds =
                                  calls[c].v_now - calls[c].v_session.started_at ] ]
                 ELSE exam_sessions
           /\ responses' = [ responses EXCEPT ![p] =
                               UpsertResponses(responses[p], calls[c].answers) ]
    /\ calls' = [ calls EXCEPT ![c] = Submitted(c) ]
    /\ UNCHANGED << question_count, questions, questionsCache, clock, event_state, rounds, participants, scores, admin, starting, v4 >>

\* --------------------------------- POST /tab-switch -> handle_tab_switch
InvokeTabSwitch(c) ==
    /\ CanInvoke(c)
    /\ \E p \in Participants, a \in AnswerInputs :
         /\ InExam(p)
         /\ calls' = [ calls EXCEPT ![c] =
                      IF event_state.round_status # "running"
                      THEN [ IdleCall EXCEPT
                               !.op = "tab", !.pc = "done", !.p = p,
                               !.during = InFlight,
                               !.answers = PrepareAnswers(a),
                               !.result = [ status |-> 200, success |-> TRUE,
                                            tags |-> {} ] ]
                      ELSE [ IdleCall EXCEPT
                               !.op = "tab", !.pc = "ts_select", !.p = p,
                               !.during = InFlight,
                               !.answers = PrepareAnswers(a),
                               !.round = event_state.current_round ] ]
    /\ UNCHANGED << clock, questionsCache, db, admin, starting >>

\* v_new_count := COALESCE(v_session.tab_switch_count, 0) + 1
NewCount(session) == session.tab_switch_count + 1

TabSwitchSelect(c) ==
    /\ calls[c].pc = "ts_select"
    /\ LET s == SessionOf(calls[c].p, calls[c].round) IN
       calls' = [ calls EXCEPT ![c] =
                    IF ~s.exists \/ s.is_submitted
                    THEN Done(c, 200, TRUE, {})
                    ELSE [ calls[c] EXCEPT !.pc = "ts_count",
                                           !.v_now = clock, !.v_session = s,
                                           !.v_new_count = NewCount(s) ] ]
    /\ UNCHANGED << clock, questionsCache, db, admin, starting >>

\* the comparison made against the count read, not the new count
IsWarningStale(n) == n = 0

\* IF v_new_count = 1
IsWarning(n) == n = 1

\* UPDATE exam_sessions SET tab_switch_count; the 1st switch returns here
TabSwitchCount(c) ==
    /\ calls[c].pc = "ts_count"
    /\ SessionFree(c, calls[c].p, calls[c].round)
    /\ IF IsWarning(calls[c].v_new_count)
       THEN /\ exam_sessions' =
                 [ exam_sessions EXCEPT
                     ![calls[c].p][calls[c].round].tab_switch_count =
                         calls[c].v_new_count ]
            /\ calls' = [ calls EXCEPT ![c] = Done(c, 200, TRUE, {"warning"}) ]
       ELSE /\ calls' = [ calls EXCEPT ![c].pc = "ts_insert" ]
            /\ UNCHANGED exam_sessions
    /\ UNCHANGED << question_count, questions, questionsCache, clock, event_state, rounds, participants, responses, scores,
                    admin, starting, v4 >>

\* Step B left out: only the count of Step 0 is written
ViolationSessionCountOnly(row, c) ==
    [ row EXCEPT !.tab_switch_count = calls[c].v_new_count ]

\* Step B: the session row as the disqualifying switch leaves it
ViolationSession(row, c) ==
    [ row EXCEPT !.tab_switch_count = calls[c].v_new_count,
                 !.is_submitted = TRUE,
                 !.submitted_at = calls[c].v_now,
                 !.submission_type = "auto_violation",
                 !.time_taken_seconds =
                     calls[c].v_now - calls[c].v_session.started_at ]

\* Steps A, B, C, RETURN, commit; a failing INSERT rolls the count back too
TabSwitchInsert(c) ==
    /\ calls[c].pc = "ts_insert"
    /\ ResponsesFree(c, calls[c].p, AnswerKeys(calls[c].answers))
    /\ LET p == calls[c].p
           r == calls[c].round
       IN  IF InsertRaises(calls[c].answers)
           THEN /\ calls' = [ calls EXCEPT ![c] = Done(c, 500, FALSE, {}) ]
                /\ UNCHANGED << question_count, questions, questionsCache, exam_sessions, responses, participants, v4 >>
           ELSE /\ responses' = [ responses EXCEPT ![p] =
                                    UpsertResponses(responses[p], calls[c].answers) ]
                /\ exam_sessions' = [ exam_sessions EXCEPT ![p][r] =
                                        ViolationSession(exam_sessions[p][r], c) ]
                /\ participants' = [ participants EXCEPT ![p].is_disqualified = TRUE ]
                /\ calls' = [ calls EXCEPT ![c] =
                                Done(c, 200, TRUE, {"autoSubmitted", "disqualified"}) ]
    /\ UNCHANGED << question_count, questions, questionsCache, clock, event_state, rounds, scores, admin, starting, v4 >>

\* ------------------------------------------------------ deadlock detection
\* submit_exam_attempt holds response rows and waits for the session row;
\* handle_tab_switch holds the session row and waits for a response row.
Deadlocked(c, d) ==
    /\ calls[c].pc = "sx_update" /\ calls[d].pc = "ts_insert"
    /\ << calls[c].p, calls[c].round >> \in SessionLocks(d)
    /\ \E q \in AnswerKeys(calls[d].answers) : << calls[d].p, q >> \in ResponseLocks(c)

\* PostgreSQL aborts one of the two transactions
DeadlockAbortSubmit(c) ==
    /\ \E d \in Calls : Deadlocked(c, d)
    /\ calls' = [ calls EXCEPT ![c] = SubmitFailed(c) ]
    /\ UNCHANGED << clock, questionsCache, db, admin, starting >>

DeadlockAbortTabSwitch(d) ==
    /\ \E c \in Calls : Deadlocked(c, d)
    /\ calls' = [ calls EXCEPT ![d] = Done(d, 500, FALSE, {}) ]
    /\ UNCHANGED << clock, questionsCache, db, admin, starting >>


\* ------------------------------------------------ scoring and shortlisting
\* every stored answer counted, whatever the key says
CorrectAnswersAll(rows) ==
    Cardinality({ q \in Questions : rows[q] # NULL })

\* COUNT(*) FILTER (WHERE UPPER(TRIM(selected_option)) = UPPER(TRIM(correct_option)))
\* over the participant's responses: the answers are all given in round 1, so
\* every row carries the round_number of the session joined with it
CorrectAnswers(rows) ==
    Cardinality({ q \in Questions :
                    rows[q] # NULL /\ UpperTrim(rows[q]) = UpperTrim(CorrectOption(q)) })

\* the upsert adding the new count to the stored one
CalculateRoundScoresAdded(sc, sess, resp, r) ==
    [ p \in DOMAIN sc |->
        IF sess[p][r].exists /\ sess[p][r].is_submitted
        THEN [ sc[p] EXCEPT ![r] =
                 [ sc[p][r] EXCEPT
                     !.exists = TRUE,
                     !.correct_answers = sc[p][r].correct_answers + CorrectAnswers(resp[p]),
                     !.time_taken_seconds = sess[p][r].time_taken_seconds ] ]
        ELSE sc[p] ]

\* calculate_round_scores: one upserted row per submitted session of the round
CalculateRoundScores(sc, sess, resp, r) ==
    [ p \in DOMAIN sc |->
        IF sess[p][r].exists /\ sess[p][r].is_submitted
        THEN [ sc[p] EXCEPT ![r] =
                 [ sc[p][r] EXCEPT
                     !.exists = TRUE,
                     !.correct_answers = CorrectAnswers(resp[p]),
                     !.time_taken_seconds = sess[p][r].time_taken_seconds ] ]
        ELSE sc[p] ]

\* the order by correct_answers alone
RanksBeforeScoreOnly(a, pa, b, pb) == a.correct_answers > b.correct_answers

\* ORDER BY correct_answers DESC, time_taken_seconds ASC NULLS LAST, participant_id ASC
RanksBefore(a, pa, b, pb) ==
    \/ a.correct_answers > b.correct_answers
    \/ /\ a.correct_answers = b.correct_answers
       /\ a.time_taken_seconds # NoTime
       /\ b.time_taken_seconds = NoTime \/ a.time_taken_seconds < b.time_taken_seconds
    \/ /\ a.correct_answers = b.correct_answers
       /\ a.time_taken_seconds = b.time_taken_seconds
       /\ pa < pb

\* generate_rankings: rank 0 stands for NULL
GenerateRankings(sc, parts, r) ==
    LET ranked == { p \in DOMAIN sc :
                      sc[p][r].exists /\ ~parts[p].is_disqualified }
    IN  [ p \in DOMAIN sc |->
            IF p \in ranked
            THEN [ sc[p] EXCEPT ![r].rank =
                     1 + Cardinality({ o \in ranked :
                           RanksBefore(sc[o][r], o, sc[p][r], p) }) ]
            ELSE IF sc[p][r].exists
            THEN [ sc[p] EXCEPT ![r].rank = 0, ![r].qualified_for_next = FALSE ]
            ELSE sc[p] ]

\* the cutoff one place too early
ShortlistScoresBelow(sc, r, top) ==
    [ p \in DOMAIN sc |->
        IF sc[p][r].exists
        THEN [ sc[p] EXCEPT ![r].qualified_for_next =
                 (sc[p][r].rank # 0 /\ sc[p][r].rank < top) ]
        ELSE sc[p] ]

\* the flags of an earlier run left standing
ShortlistScoresKept(sc, r, top) ==
    [ p \in DOMAIN sc |->
        IF sc[p][r].exists
        THEN [ sc[p] EXCEPT ![r].qualified_for_next =
                 \/ sc[p][r].qualified_for_next
                 \/ sc[p][r].rank # 0 /\ sc[p][r].rank <= top ]
        ELSE sc[p] ]

\* perform_shortlisting: the scores it leaves
ShortlistScores(sc, r, top) ==
    [ p \in DOMAIN sc |->
        IF sc[p][r].exists
        THEN [ sc[p] EXCEPT ![r].qualified_for_next =
                 (sc[p][r].rank # 0 /\ sc[p][r].rank <= top) ]
        ELSE sc[p] ]

\* perform_shortlisting: the participants it leaves, given the new scores
ShortlistParticipants(parts, sc, r) ==
    [ p \in DOMAIN parts |->
        IF sc[p][r].exists /\ sc[p][r].qualified_for_next
        THEN [ parts[p] EXCEPT !.current_round = r + 1, !.is_qualified = TRUE ]
        ELSE IF sc[p][r].exists /\ ~parts[p].is_disqualified
        THEN [ parts[p] EXCEPT !.current_round = r, !.is_qualified = FALSE ]
        ELSE parts[p] ]

\* ------------------------------------------------------ finalize_round
InvokeFinalize(c) ==
    /\ CanInvoke(c)
    /\ \E r \in DOMAIN rounds :
         calls' = [ calls EXCEPT ![c] =
                      [ IdleCall EXCEPT !.op = "finalize", !.pc = "fz_guard",
                                        !.during = InFlight,
                                        !.running = (rounds[r].status = "active"),
                                        !.round = r ] ]
    /\ UNCHANGED << clock, questionsCache, db, admin, starting >>

\* the guard left out: every call passes
FinalizeGuardNone(row) == TRUE

\* WHERE round_number = p_round_number AND status != 'completed'
FinalizeGuard(row) == row.status # "completed"

\* STEP 1: the idempotent guard
FinalizeLock(c) ==
    /\ calls[c].pc = "fz_guard"
    /\ RoundFree(c, calls[c].round)
    /\ calls' = [ calls EXCEPT ![c] =
                    IF FinalizeGuard(rounds[calls[c].round])
                    THEN [ calls[c] EXCEPT !.pc = "fz_auto", !.v_now = clock ]
                    ELSE Done(c, 200, FALSE, {"alreadyCompleted"}) ]
    /\ UNCHANGED << clock, questionsCache, db, admin, starting >>

\* WHERE round_number = p_round_number AND is_submitted = FALSE
Pending(r) ==
    { p \in DOMAIN exam_sessions :
        exam_sessions[p][r].exists /\ ~exam_sessions[p][r].is_submitted }

\* STEPS 2 and 3: event_state, then auto-submit of the pending sessions
FinalizeAutoSubmit(c) ==
    /\ calls[c].pc = "fz_auto"
    /\ EventFree(c)
    /\ \A p \in Pending(calls[c].round) : SessionFree(c, p, calls[c].round)
    /\ calls' = [ calls EXCEPT ![c].pc = "fz_score",
                               ![c].auto = Pending(calls[c].round) ]
    /\ UNCHANGED << clock, questionsCache, db, admin, starting >>

\* the auto-submit setting the flag and the type, not the elapsed time
AutoSubmittedFlagOnly(c) ==
    [ p \in DOMAIN exam_sessions |->
        IF p \in calls[c].auto
        THEN [ exam_sessions[p] EXCEPT ![calls[c].round] =
                 [ exam_sessions[p][calls[c].round] EXCEPT
                     !.is_submitted = TRUE,
                     !.submitted_at = calls[c].v_now,
                     !.submission_type = "auto_round_end" ] ]
        ELSE exam_sessions[p] ]

\* the session rows with this transaction's auto-submit applied
AutoSubmitted(c) ==
    [ p \in DOMAIN exam_sessions |->
        IF p \in calls[c].auto
        THEN [ exam_sessions[p] EXCEPT ![calls[c].round] =
                 [ exam_sessions[p][calls[c].round] EXCEPT
                     !.is_submitted = TRUE,
                     !.submitted_at = calls[c].v_now,
                     !.submission_type = "auto_round_end",
                     !.time_taken_seconds =
                         calls[c].v_now - exam_sessions[p][calls[c].round].started_at ] ]
        ELSE exam_sessions[p] ]

\* STEPS 4 to 7: scores, rankings, shortlist, RETURN, commit
FinalizeScore(c) ==
    /\ calls[c].pc = "fz_score"
    /\ LET r == calls[c].round
           sess == AutoSubmitted(c)
           sc1 == CalculateRoundScores(scores, sess, responses, r)
           sc2 == GenerateRankings(sc1, participants, r)
           sc3 == ShortlistScores(sc2, r, TopQualifyCount)
       IN  /\ exam_sessions' = sess
           /\ scores' = sc3
           /\ participants' = ShortlistParticipants(participants, sc3, r)
           /\ rounds' = [ rounds EXCEPT ![r].status = "completed",
                                        ![r].shortlisting_completed = TRUE ]
           /\ event_state' = [ event_state EXCEPT !.round_status = "completed" ]
    /\ calls' = [ calls EXCEPT ![c] = Done(c, 200, TRUE, {}) ]
    /\ UNCHANGED << question_count, questions, questionsCache, clock, responses, admin, starting, v4 >>

\* ------------------------------- the scoring functions called on their own
\* calculate_round_scores, then generate_rankings, for a round already scored
InvokeRescore(c) ==
    /\ CanInvoke(c)
    /\ \E r \in DOMAIN rounds :
         calls' = [ calls EXCEPT ![c] =
                      [ IdleCall EXCEPT !.op = "rescore", !.pc = "rr_calc",
                                        !.during = InFlight, !.round = r ] ]
    /\ UNCHANGED << clock, questionsCache, db, admin, starting >>

RescoreCalculate(c) ==
    /\ calls[c].pc = "rr_calc"
    /\ scores' = CalculateRoundScores(scores, exam_sessions, responses, calls[c].round)
    /\ calls' = [ calls EXCEPT ![c].pc = "rr_rank" ]
    /\ UNCHANGED << question_count, questions, questionsCache, clock, event_state, rounds, participants,
                    exam_sessions, responses, admin, starting, v4 >>

RescoreRank(c) ==
    /\ calls[c].pc = "rr_rank"
    /\ scores' = GenerateRankings(scores, participants, calls[c].round)
    /\ calls' = [ calls EXCEPT ![c] = Done(c, 200, TRUE, {}) ]
    /\ UNCHANGED << question_count, questions, questionsCache, clock, event_state, rounds, participants,
                    exam_sessions, responses, admin, starting, v4 >>

\* perform_shortlisting(p_round_number, p_top_count): one transaction
PerformShortlisting(c) ==
    /\ CanInvoke(c)
    /\ \E r \in DOMAIN rounds, top \in TopInputs :
         LET sc == ShortlistScores(scores, r, top) IN
         /\ scores' = sc
         /\ participants' = ShortlistParticipants(participants, sc, r)
         /\ rounds' = [ rounds EXCEPT ![r].shortlisting_completed = TRUE ]
         /\ calls' = [ calls EXCEPT ![c] =
                         [ IdleCall EXCEPT
                             !.op = "shortlisting", !.pc = "done", !.round = r,
                             !.top = top, !.during = InFlight,
                             !.result = [ status |-> 200, success |-> TRUE,
                                          tags |-> {} ] ] ]
    /\ UNCHANGED << question_count, questions, questionsCache, clock, event_state, exam_sessions, responses,
                    admin, starting, v4 >>

\* -------------------------------------- POST /submit -> submit_bulk_answers
\* p_attempt_token UUID: the RPC rejects any other text
IsUuid(t) == t \in Tokens

\* the handler up to the RPC, for a request body drawn from inputs
BulkSubmitRequest(c, inputs) ==
    /\ CanInvoke(c)
    /\ \E t \in TokenInputs, r \in DOMAIN rounds, a \in inputs, s \in TimeInputs :
         calls' = [ calls EXCEPT ![c] =
                      IF t = ""
                      THEN [ IdleCall EXCEPT
                               !.op = "bulk", !.pc = "done", !.during = InFlight,
                               !.round = r,
                               !.result = [ status |-> 200, success |-> TRUE,
                                            tags |-> {} ] ]
                      ELSE [ IdleCall EXCEPT
                               !.op = "bulk", !.pc = "sb_select", !.token = t,
                               !.during = InFlight, !.round = r, !.time = s,
                               !.answers = PrepareAnswers(a) ] ]
    /\ UNCHANGED << clock, questionsCache, db, admin, starting >>

InvokeBulkSubmit(c) == BulkSubmitRequest(c, AnswerInputs)

\* a client that sends the same question more than once
InvokeBulkSubmitRepeated(c) == BulkSubmitRequest(c, RepeatedInputs)

\* a client that sends question ids of its own making
InvokeBulkSubmitMalformed(c) == BulkSubmitRequest(c, MalformedInputs)

\* the RPC failed: withRetry calls it again, then the catch answers success
BulkFailed(c) ==
    IF calls[c].attempt < BulkMaxRetries
    THEN [ calls[c] EXCEPT !.attempt = calls[c].attempt + 1 ]
    ELSE Done(c, 200, TRUE, {})

\* SELECT id INTO v_existing_id; the early return
BulkSelect(c) ==
    /\ calls[c].pc = "sb_select"
    /\ calls' = [ calls EXCEPT ![c] =
                    IF ~IsUuid(calls[c].token) THEN BulkFailed(c)
                    ELSE IF submissions[calls[c].token][calls[c].round].exists
                    THEN Done(c, 200, TRUE, {"alreadySubmitted"})
                    ELSE [ calls[c] EXCEPT !.pc = "sb_insert" ] ]
    /\ UNCHANGED << clock, questionsCache, db, admin, starting >>

\* supabase.rpc answers with an error (connection lost, statement timeout):
\* if (error) throw error
BulkRpcError(c) ==
    /\ calls[c].pc = "sb_select"
    /\ IsUuid(calls[c].token)
    /\ calls' = [ calls EXCEPT ![c] = BulkFailed(c) ]
    /\ UNCHANGED << clock, questionsCache, db, admin, starting >>

\* the conflicting insert adding its answers to the stored ones
InsertSubmissionAppended(row, c) ==
    [ exists |-> TRUE,
      answers |-> IF row.exists THEN row.answers \o calls[c].answers
                  ELSE calls[c].answers,
      time_taken_seconds |-> IF row.exists THEN row.time_taken_seconds
                             ELSE calls[c].time ]

\* INSERT INTO submissions ... ON CONFLICT (attempt_token, round_number) DO NOTHING
InsertSubmission(row, c) ==
    IF row.exists THEN row
    ELSE [ exists |-> TRUE, answers |-> calls[c].answers,
           time_taken_seconds |-> calls[c].time ]

BulkInsert(c) ==
    /\ calls[c].pc = "sb_insert"
    /\ submissions' = [ submissions EXCEPT ![calls[c].token][calls[c].round] =
                          InsertSubmission(@, c) ]
    /\ calls' = [ calls EXCEPT ![c] = Done(c, 200, TRUE, {}) ]
    /\ UNCHANGED << question_count, questions, questionsCache, clock, event_state, rounds, participants, exam_sessions,
                    responses, scores, results, admin, starting >>

\* ------------------------------------------- V4 evaluation and shortlisting
\* COUNT(*) over jsonb_array_elements(s.answers) JOIN questions
Score(answers, r) ==
    Cardinality({ i \in DOMAIN answers :
                    /\ answers[i].question_id \in Questions
                    /\ QuestionRound(answers[i].question_id) = r
                    /\ UpperTrim(answers[i].selected_option) =
                           UpperTrim(CorrectOption(answers[i].question_id)) })

\* (ans->>'question_id')::UUID
IsUuidText(id) == id > 0

\* evaluate_round raises: a stored question_id cannot be cast to UUID
EvaluateRaises(subs, r) ==
    \E t \in DOMAIN subs :
        /\ subs[t][r].exists
        /\ \E a \in Range(subs[t][r].answers) : ~IsUuidText(a.question_id)

\* evaluate_round: one upserted results row per submission of the round
EvaluateRound(res, subs, r) ==
    [ t \in DOMAIN res |->
        IF subs[t][r].exists
        THEN [ res[t] EXCEPT ![r] =
                 [ res[t][r] EXCEPT
                     !.exists = TRUE,
                     !.score = Score(subs[t][r].answers, r),
                     !.time_taken_seconds = subs[t][r].time_taken_seconds ] ]
        ELSE res[t] ]

\* attempt_token ASC: the tokens in the order of their UUIDs
TokenOrder == << "t1", "t2", "t3" >>

TokenBefore(a, b) ==
    \E i, j \in DOMAIN TokenOrder : TokenOrder[i] = a /\ TokenOrder[j] = b /\ i < j

\* ORDER BY score DESC, time_taken_seconds ASC NULLS LAST, attempt_token ASC
RowBefore(a, ta, b, tb) ==
    \/ a.score > b.score
    \/ /\ a.score = b.score
       /\ a.time_taken_seconds # NoTime
       /\ b.time_taken_seconds = NoTime \/ a.time_taken_seconds < b.time_taken_seconds
    \/ /\ a.score = b.score
       /\ a.time_taken_seconds = b.time_taken_seconds
       /\ TokenBefore(ta, tb)

\* rank_round: ROW_NUMBER() over every results row of the round
RankRound(res, r) ==
    [ t \in DOMAIN res |->
        IF res[t][r].exists
        THEN [ res[t] EXCEPT
                 ![r].qualified_for_next = FALSE,
                 ![r].rank = 1 + Cardinality({ o \in DOMAIN res :
                                 /\ res[o][r].exists
                                 /\ RowBefore(res[o][r], o, res[t][r], t) }) ]
        ELSE res[t] ]

\* shortlist_round
ShortlistRound(res, r, top) ==
    [ t \in DOMAIN res |->
        IF res[t][r].exists
        THEN [ res[t] EXCEPT ![r].qualified_for_next =
                 (res[t][r].rank # 0 /\ res[t][r].rank <= top) ]
        ELSE res[t] ]

\* ------------------------------------ POST /round/end -> finalize_round_v4
InvokeEndRound(c) ==
    /\ CanInvoke(c)
    /\ calls' = [ calls EXCEPT ![c] =
                    IF event_state.current_round = 0
                    THEN [ IdleCall EXCEPT
                             !.op = "end", !.pc = "done", !.during = InFlight,
                             !.result = [ status |-> 400, success |-> FALSE,
                                          tags |-> {} ] ]
                    ELSE [ IdleCall EXCEPT
                             !.op = "end", !.pc = "er_rpc", !.during = InFlight,
                             !.running =
                                 (rounds[event_state.current_round].status = "active"),
                             !.round = event_state.current_round ] ]
    /\ UNCHANGED << clock, questionsCache, db, admin, starting >>

\* finalize_round_v4: guard, event_state, evaluate, rank, shortlist, commit
EndRoundFinalize(c) ==
    /\ calls[c].pc = "er_rpc"
    /\ RoundFree(c, calls[c].round)
    /\ LET r == calls[c].round IN
       IF FinalizeGuard(rounds[r]) /\ EvaluateRaises(submissions, r)
       THEN /\ calls' = [ calls EXCEPT ![c] = Done(c, 500, FALSE, {}) ]
            /\ UNCHANGED << rounds, event_state, results >>
       ELSE IF FinalizeGuard(rounds[r])
       THEN /\ rounds' = [ rounds EXCEPT ![r].status = "completed" ]
            /\ event_state' = [ event_state EXCEPT !.round_status = "completed" ]
            /\ results' = ShortlistRound(
                              RankRound(EvaluateRound(results, submissions, r), r),
                              r, TopQualifyCount)
            /\ calls' = [ calls EXCEPT ![c].pc = "er_mark" ]
       ELSE /\ calls' = [ calls EXCEPT ![c] =
                            Done(c, 200, TRUE, {"alreadyCompleted"}) ]
            /\ UNCHANGED << rounds, event_state, results >>
    /\ UNCHANGED << question_count, questions, questionsCache, clock, participants, exam_sessions, responses, scores,
                    submissions, admin, starting >>

\* Mark shortlisting as completed, then answer
EndRoundMark(c) ==
    /\ calls[c].pc = "er_mark"
    /\ RoundFree(c, calls[c].round)
    /\ rounds' = [ rounds EXCEPT ![calls[c].round].shortlisting_completed = TRUE ]
    /\ calls' = [ calls EXCEPT ![c] = Done(c, 200, TRUE, {}) ]
    /\ UNCHANGED << question_count, questions, questionsCache, clock, event_state, participants, exam_sessions, responses,
                    scores, v4, admin, starting >>

\* ------------------------------------- POST /round/end (admin.js, inline)
InvokeRoundEnd(c) ==
    /\ CanInvoke(c)
    /\ calls' = [ calls EXCEPT ![c] =
                    IF event_state.current_round = 0
                    THEN [ IdleCall EXCEPT
                             !.op = "round_end", !.pc = "done", !.during = InFlight,
                             !.result = [ status |-> 400, success |-> FALSE,
                                          tags |-> {} ] ]
                    ELSE [ IdleCall EXCEPT
                             !.op = "round_end", !.pc = "re_read", !.during = InFlight,
                             !.running =
                                 (rounds[event_state.current_round].status = "active"),
                             !.round = event_state.current_round ] ]
    /\ UNCHANGED << clock, questionsCache, db, admin, starting >>

\* Check if already completed (idempotent)
RoundEndRead(c) ==
    /\ calls[c].pc = "re_read"
    /\ calls' = [ calls EXCEPT ![c] =
                    IF rounds[calls[c].round].status = "completed"
                    THEN Done(c, 200, TRUE, {"alreadyCompleted"})
                    ELSE [ calls[c] EXCEPT !.pc = "re_row" ] ]
    /\ UNCHANGED << clock, questionsCache, db, admin, starting >>

\* Mark round as completed
RoundEndRow(c) ==
    /\ calls[c].pc = "re_row"
    /\ RoundFree(c, calls[c].round)
    /\ rounds' = [ rounds EXCEPT ![calls[c].round].status = "completed" ]
    /\ calls' = [ calls EXCEPT ![c].pc = "re_event" ]
    /\ UNCHANGED << question_count, questions, questionsCache, clock, event_state, participants, exam_sessions,
                    responses, scores, v4, admin, starting >>

\* Update event state, then answer
RoundEndEvent(c) ==
    /\ calls[c].pc = "re_event"
    /\ EventFree(c)
    /\ event_state' = [ event_state EXCEPT !.round_status = "completed" ]
    /\ calls' = [ calls EXCEPT ![c] = Done(c, 200, TRUE, {}) ]
    /\ UNCHANGED << question_count, questions, questionsCache, clock, rounds, participants, exam_sessions,
                    responses, scores, v4, admin, starting >>

\* the update of event_state answers with an error: if (eventError) throw eventError
RoundEndEventError(c) ==
    /\ calls[c].pc = "re_event"
    /\ calls' = [ calls EXCEPT ![c] = Done(c, 500, FALSE, {}) ]
    /\ UNCHANGED << clock, questionsCache, db, admin, starting >>

\* ------------------------------------------------- POST /round/shortlist
\* Verify round is completed; tops are the values of topCount the body can
\* have, 0 standing for a body without it
ShortlistRequest(c, tops) ==
    /\ CanInvoke(c)
    /\ \E r \in DOMAIN rounds, top \in tops :
         calls' = [ calls EXCEPT ![c] =
                      IF rounds[r].status # "completed"
                      THEN [ IdleCall EXCEPT
                               !.op = "shortlist", !.pc = "done", !.round = r,
                               !.top = top, !.during = InFlight,
                               !.result = [ status |-> 400, success |-> FALSE,
                                            tags |-> {} ] ]
                      ELSE [ IdleCall EXCEPT
                               !.op = "shortlist", !.pc = "sl_eval", !.round = r,
                               !.top = top, !.during = InFlight ] ]
    /\ UNCHANGED << clock, questionsCache, db, admin, starting >>

\* the dashboard's request: { roundNumber }
InvokeShortlist(c) == ShortlistRequest(c, {0})

\* the administrative override: { roundNumber, topCount }
InvokeShortlistTop(c) == ShortlistRequest(c, TopCountInputs)

\* const finalTopCount = topCount || 25
FinalTopCount(top) == IF top = 0 THEN TopQualifyCount ELSE top

\* Re-evaluate; if (evalErr) throw evalErr
ShortlistEvaluate(c) ==
    /\ calls[c].pc = "sl_eval"
    /\ IF EvaluateRaises(submissions, calls[c].round)
       THEN /\ calls' = [ calls EXCEPT ![c] = Done(c, 500, FALSE, {}) ]
            /\ UNCHANGED results
       ELSE /\ results' = EvaluateRound(results, submissions, calls[c].round)
            /\ calls' = [ calls EXCEPT ![c].pc = "sl_rank" ]
    /\ UNCHANGED << question_count, questions, questionsCache, clock, event_state, rounds, participants,
                    exam_sessions, responses, scores, submissions, admin, starting >>

\* Re-rank
ShortlistRank(c) ==
    /\ calls[c].pc = "sl_rank"
    /\ results' = RankRound(results, calls[c].round)
    /\ calls' = [ calls EXCEPT ![c].pc = "sl_short" ]
    /\ UNCHANGED << question_count, questions, questionsCache, clock, event_state, rounds, participants,
                    exam_sessions, responses, scores, submissions, admin, starting >>

\* Re-shortlist with topCount || 25
ShortlistTop(c) ==
    /\ calls[c].pc = "sl_short"
    /\ results' = ShortlistRound(results, calls[c].round, FinalTopCount(calls[c].top))
    /\ calls' = [ calls EXCEPT ![c].pc = "sl_mark" ]
    /\ UNCHANGED << question_count, questions, questionsCache, clock, event_state, rounds, participants,
                    exam_sessions, responses, scores, submissions, admin, starting >>

\* Mark shortlisting as completed, then answer
ShortlistMark(c) ==
    /\ calls[c].pc = "sl_mark"
    /\ RoundFree(c, calls[c].round)
    /\ rounds' = [ rounds EXCEPT ![calls[c].round].shortlisting_completed = TRUE ]
    /\ calls' = [ calls EXCEPT ![c] = Done(c, 200, TRUE, {}) ]
    /\ UNCHANGED << question_count, questions, questionsCache, clock, event_state, participants, exam_sessions,
                    responses, scores, v4, admin, starting >>

\* ----------------------------------------------------- POST /round/reset
\* Get current event state
InvokeReset(c) ==
    /\ CanInvoke(c)
    /\ \E r \in DOMAIN rounds :
         calls' = [ calls EXCEPT ![c] =
                      [ IdleCall EXCEPT
                          !.op = "reset", !.pc = "rs_subs", !.round = r,
                          !.during = InFlight,
                          !.v_current = (event_state.current_round = r) ] ]
    /\ UNCHANGED << clock, questionsCache, db, admin, starting >>

\* 1. Delete submissions for this round
ResetSubmissions(c) ==
    /\ calls[c].pc = "rs_subs"
    /\ submissions' = [ t \in DOMAIN submissions |->
                          [ submissions[t] EXCEPT ![calls[c].round] = NoSubmission ] ]
    /\ calls' = [ calls EXCEPT ![c].pc = "rs_results" ]
    /\ UNCHANGED << question_count, questions, questionsCache, clock, event_state, rounds, participants,
                    exam_sessions, responses, scores, results, admin, starting >>

\* 2. Delete results for this round
ResetResults(c) ==
    /\ calls[c].pc = "rs_results"
    /\ results' = [ t \in DOMAIN results |->
                      [ results[t] EXCEPT ![calls[c].round] = NoRow ] ]
    /\ calls' = [ calls EXCEPT ![c].pc = "rs_round" ]
    /\ UNCHANGED << question_count, questions, questionsCache, clock, event_state, rounds, participants,
                    exam_sessions, responses, scores, submissions, admin, starting >>

\* 4. Reset round status in 'rounds' table
ResetRound(c) ==
    /\ calls[c].pc = "rs_round"
    /\ RoundFree(c, calls[c].round)
    /\ rounds' = [ rounds EXCEPT ![calls[c].round] =
                      [ status |-> "pending", shortlisting_completed |-> FALSE ] ]
    /\ calls' = [ calls EXCEPT ![c].pc = "rs_event" ]
    /\ UNCHANGED << question_count, questions, questionsCache, clock, event_state, participants, exam_sessions,
                    responses, scores, v4, admin, starting >>

\* 5. If this is the active current round, update event_state; then answer
ResetEvent(c) ==
    /\ calls[c].pc = "rs_event"
    /\ EventFree(c)
    /\ event_state' = IF calls[c].v_current
                      THEN [ event_state EXCEPT !.round_status = "not_started",
                                                !.round_ends_at = NoTime ]
                      ELSE event_state
    /\ calls' = [ calls EXCEPT ![c] = Done(c, 200, TRUE, {}) ]
    /\ UNCHANGED << question_count, questions, questionsCache, clock, rounds, participants, exam_sessions,
                    responses, scores, v4, admin, starting >>

\* ------------------------------------------------------------------- Next
\* The administrator starts a round that is still pending; with one round
\* POST /round/start never reads a previous round.  The exam page asks for a
\* session while it has none.
Next ==
    \/ Tick
    \/ \E r \in DOMAIN rounds : rounds[r].status = "pending" /\ StartRoundRequest(r)
    \/ StartRoundCount
    \/ StartRoundEvent
    \/ StartRoundRow
    \/ \E s \in DOMAIN starting, p \in Participants :
          ~InExam(p) /\ StartExamRequest(s, p)
    \/ \E s \in DOMAIN starting : StartExamEvent(s)
    \/ \E s \in DOMAIN starting : StartExamSelect(s)
    \/ \E s \in DOMAIN starting : StartExamInsert(s)
    \/ \E c \in Calls : InvokeSubmit(c)
    \/ \E c \in Calls : SubmitSelect(c)
    \/ \E c \in Calls : SubmitInsert(c)
    \/ \E c \in Calls : SubmitUpdate(c)
    \/ \E c \in Calls : InvokeTabSwitch(c)
    \/ \E c \in Calls : TabSwitchSelect(c)
    \/ \E c \in Calls : TabSwitchCount(c)
    \/ \E c \in Calls : TabSwitchInsert(c)
    \/ \E c \in Calls : DeadlockAbortSubmit(c)
    \/ \E c \in Calls : DeadlockAbortTabSwitch(c)
    \/ \E c \in Calls : InvokeFinalize(c)
    \/ \E c \in Calls : FinalizeLock(c)
    \/ \E c \in Calls : FinalizeAutoSubmit(c)
    \/ \E c \in Calls : FinalizeScore(c)

Spec == Init /\ [][Next]_vars

\* the V4 deployment: submissions keyed by attempt_token
NextV4 ==
    \/ \E r \in DOMAIN rounds : rounds[r].status = "pending" /\ StartRoundRequest(r)
    \/ StartRoundCount
    \/ StartRoundEvent
    \/ StartRoundRow
    \/ \E c \in Calls : InvokeBulkSubmit(c)
    \/ \E c \in Calls : BulkSelect(c)
    \/ \E c \in Calls : BulkRpcError(c)
    \/ \E c \in Calls : BulkInsert(c)
    \/ \E c \in Calls : InvokeEndRound(c)
    \/ \E c \in Calls : EndRoundFinalize(c)
    \/ \E c \in Calls : EndRoundMark(c)

SpecV4 == Init /\ [][NextV4]_vars

\* StartExam requests served at the same time, and repeated
InitStart ==
    /\ Setup(Rounds, 1..MaxStarts)
    /\ question_count = [ r \in Rounds |-> RequiredQuestions ]
    /\ questions = Uploaded(question_count)
    /\ questionsCache = EmptyCache

NextStart ==
    \/ Tick
    \/ \E r \in DOMAIN rounds : rounds[r].status = "pending" /\ StartRoundRequest(r)
    \/ StartRoundCount
    \/ StartRoundEvent
    \/ StartRoundRow
    \/ \E s \in DOMAIN starting, p \in Participants : StartExamRequest(s, p)
    \/ \E s \in DOMAIN starting : StartExamEvent(s)
    \/ \E s \in DOMAIN starting : StartExamSelect(s)
    \/ \E s \in DOMAIN starting : StartExamInsert(s)
    \/ \E c \in Calls : InvokeTabSwitch(c)
    \/ \E c \in Calls : TabSwitchSelect(c)
    \/ \E c \in Calls : TabSwitchCount(c)
    \/ \E c \in Calls : TabSwitchInsert(c)

SpecStart == InitStart /\ [][NextStart]_vars

\* two rounds in a row: start, exam, end, start, exam
InitRounds ==
    /\ Setup(RoundNumbers, {1})
    /\ question_count = [ r \in RoundNumbers |-> RequiredQuestions ]
    /\ questions = Uploaded(question_count)
    /\ questionsCache = EmptyCache

NextRounds ==
    \/ \E r \in DOMAIN rounds : rounds[r].status = "pending" /\ StartRoundRequest(r)
    \/ StartRoundPrev
    \/ StartRoundCount
    \/ StartRoundEvent
    \/ StartRoundRow
    \/ \E s \in DOMAIN starting, p \in Participants :
          ~InExam(p) /\ StartExamRequest(s, p)
    \/ \E s \in DOMAIN starting : StartExamEvent(s)
    \/ \E s \in DOMAIN starting : StartExamSelect(s)
    \/ \E s \in DOMAIN starting : StartExamInsert(s)
    \/ \E c \in Calls : InvokeFinalize(c)
    \/ \E c \in Calls : FinalizeLock(c)
    \/ \E c \in Calls : FinalizeAutoSubmit(c)
    \/ \E c \in Calls : FinalizeScore(c)

SpecRounds == InitRounds /\ [][NextRounds]_vars

\* Scoring time: round 1 is running, the participant's session is open or
\* submitted with any stored answers, and the token's submission, if there
\* is one, holds what POST /submit prepared from a request body.
InitScore ==
    /\ clock = 0
    /\ event_state = [ current_round |-> 1, round_status |-> "running",
                       round_ends_at |-> 0 ]
    /\ rounds = [ r \in Rounds |->
                    [ status |-> "active", shortlisting_completed |-> FALSE ] ]
    /\ participants = [ p \in Participants |->
                          [ is_disqualified |-> FALSE, is_qualified |-> TRUE,
                            current_round |-> 1 ] ]
    /\ \E sub \in BOOLEAN :
         exam_sessions = [ p \in Participants |-> [ r \in Rounds |->
             IF sub
             THEN [ NoSession EXCEPT !.exists = TRUE, !.started_at = 0,
                                     !.is_submitted = TRUE, !.submitted_at = 0,
                                     !.submission_type = "manual",
                                     !.time_taken_seconds = 0 ]
             ELSE [ NoSession EXCEPT !.exists = TRUE, !.started_at = 0 ] ] ]
    /\ responses \in [ Participants -> [ Questions -> {NULL} \cup ValidOptions ] ]
    /\ scores = [ p \in Participants |-> [ r \in Rounds |-> NoScore ] ]
    /\ \E a \in ClaimedInputs, s \in TimeInputs :
         submissions = [ t \in Tokens |-> [ r \in Rounds |->
             [ exists |-> TRUE, answers |-> PrepareAnswers(a),
               time_taken_seconds |-> s ] ] ]
    /\ results = [ t \in Tokens |-> [ r \in Rounds |-> NoRow ] ]
    /\ question_count = [ r \in Rounds |-> RequiredQuestions ]
    /\ questions = Uploaded(question_count)
    /\ questionsCache = EmptyCache
    /\ calls = [ c \in Calls |-> IdleCall ]
    /\ admin = IdleAdmin
    /\ starting = [ s \in {1} |-> IdleStart ]

\* the round is ended by finalize_round or by POST /round/end
NextScore ==
    \/ \E c \in Calls : InvokeFinalize(c)
    \/ \E c \in Calls : FinalizeLock(c)
    \/ \E c \in Calls : FinalizeAutoSubmit(c)
    \/ \E c \in Calls : FinalizeScore(c)
    \/ \E c \in Calls : InvokeEndRound(c)
    \/ \E c \in Calls : EndRoundFinalize(c)
    \/ \E c \in Calls : EndRoundMark(c)

SpecScore == InitScore /\ [][NextScore]_vars

\* two rounds; the questions of a round are all uploaded, or one is missing
InitAdmin ==
    /\ Setup(RoundNumbers, {1})
    /\ question_count \in [ RoundNumbers -> { RequiredQuestions - 1, RequiredQuestions } ]
    /\ questions = Uploaded(question_count)
    /\ questionsCache = EmptyCache

\* the administrator's round controls (admin.js)
NextAdmin ==
    \/ \E r \in DOMAIN rounds : StartRoundRequest(r)
    \/ StartRoundPrev
    \/ StartRoundCount
    \/ StartRoundEvent
    \/ StartRoundRow
    \/ \E c \in Calls : InvokeRoundEnd(c)
    \/ \E c \in Calls : RoundEndRead(c)
    \/ \E c \in Calls : RoundEndRow(c)
    \/ \E c \in Calls : RoundEndEvent(c)
    \/ \E c \in Calls : InvokeShortlist(c)
    \/ \E c \in Calls : ShortlistEvaluate(c)
    \/ \E c \in Calls : ShortlistRank(c)
    \/ \E c \in Calls : ShortlistTop(c)
    \/ \E c \in Calls : ShortlistMark(c)
    \/ \E c \in Calls : InvokeReset(c)
    \/ \E c \in Calls : ResetSubmissions(c)
    \/ \E c \in Calls : ResetResults(c)
    \/ \E c \in Calls : ResetRound(c)
    \/ \E c \in Calls : ResetEvent(c)

SpecAdmin == InitAdmin /\ [][NextAdmin]_vars

\* the V4 deployment as admin.js runs it: submissions collected, the round
\* ended, then evaluated and ranked by the shortlist request
NextBulk ==
    \/ \E r \in DOMAIN rounds : rounds[r].status = "pending" /\ StartRoundRequest(r)
    \/ StartRoundCount
    \/ StartRoundEvent
    \/ StartRoundRow
    \/ \E c \in Calls : InvokeBulkSubmitRepeated(c)
    \/ \E c \in Calls : BulkSelect(c)
    \/ \E c \in Calls : BulkRpcError(c)
    \/ \E c \in Calls : BulkInsert(c)
    \/ \E c \in Calls : InvokeRoundEnd(c)
    \/ \E c \in Calls : RoundEndRead(c)
    \/ \E c \in Calls : RoundEndRow(c)
    \/ \E c \in Calls : RoundEndEvent(c)
    \/ \E c \in Calls : InvokeShortlist(c)
    \/ \E c \in Calls : ShortlistEvaluate(c)
    \/ \E c \in Calls : ShortlistRank(c)
    \/ \E c \in Calls : ShortlistTop(c)
    \/ \E c \in Calls : ShortlistMark(c)

SpecBulk == Init /\ [][NextBulk]_vars

\* Ranking time: round 1 is running and every candidate who took the exam has
\* submitted.  Candidate i is participant i and attempt token i; a profile is
\* what one candidate handed in.
Candidates == {1, 2, 3}

RankProfiles ==
    { [ present |-> FALSE, correct |-> 0, time |-> 3, is_disqualified |-> FALSE ],
      [ present |-> TRUE, correct |-> 2, time |-> 3, is_disqualified |-> TRUE ] }
    \cup { [ present |-> TRUE, correct |-> k, time |-> t, is_disqualified |-> FALSE ] :
             k \in {1, 2}, t \in TimeInputs }

\* question 1 answered correctly; question 2 correctly or not
ProfileOption(prof, q) ==
    IF q = 1 \/ prof.correct = 2 THEN CorrectOption(q) ELSE "A"

InitRank ==
    /\ clock = 0
    /\ event_state = [ current_round |-> 1, round_status |-> "running",
                       round_ends_at |-> 0 ]
    /\ rounds = [ r \in Rounds |->
                    [ status |-> "active", shortlisting_completed |-> FALSE ] ]
    /\ \E prof \in [ Candidates -> RankProfiles ] :
         /\ participants = [ p \in Candidates |->
                               [ is_disqualified |-> prof[p].is_disqualified,
                                 is_qualified |-> TRUE, current_round |-> 1 ] ]
         /\ exam_sessions = [ p \in Candidates |-> [ r \in Rounds |->
               IF prof[p].present
               THEN [ NoSession EXCEPT
                        !.exists = TRUE, !.started_at = 0,
                        !.is_submitted = TRUE, !.submitted_at = 0,
                        !.submission_type =
                            IF prof[p].is_disqualified
                            THEN "auto_violation" ELSE "manual",
                        !.time_taken_seconds = prof[p].time ]
               ELSE NoSession ] ]
         /\ responses = [ p \in Candidates |-> [ q \in Questions |->
               IF prof[p].present THEN ProfileOption(prof[p], q) ELSE NULL ] ]
         /\ submissions = [ t \in Range(TokenOrder) |-> [ r \in Rounds |->
               LET p == CHOOSE i \in Candidates : TokenOrder[i] = t IN
               IF prof[p].present
               THEN [ exists |-> TRUE,
                      answers |-> [ q \in 1..2 |->
                          [ question_id |-> q,
                            selected_option |-> ProfileOption(prof[p], q) ] ],
                      time_taken_seconds |-> prof[p].time ]
               ELSE NoSubmission ] ]
    /\ scores = [ p \in Candidates |-> [ r \in Rounds |-> NoScore ] ]
    /\ results = [ t \in Range(TokenOrder) |-> [ r \in Rounds |-> NoRow ] ]
    /\ question_count = [ r \in Rounds |-> RequiredQuestions ]
    /\ questions = Uploaded(question_count)
    /\ questionsCache = EmptyCache
    /\ calls = [ c \in Calls |-> IdleCall ]
    /\ admin = IdleAdmin
    /\ starting = [ s \in {1} |-> IdleStart ]

\* the round is ended, then scored, ranked and shortlisted again
NextRank ==
    \/ \E c \in Calls : InvokeFinalize(c)
    \/ \E c \in Calls : FinalizeLock(c)
    \/ \E c \in Calls : FinalizeAutoSubmit(c)
    \/ \E c \in Calls : FinalizeScore(c)
    \/ \E c \in Calls : InvokeRescore(c)
    \/ \E c \in Calls : RescoreCalculate(c)
    \/ \E c \in Calls : RescoreRank(c)
    \/ \E c \in Calls : PerformShortlisting(c)
    \/ \E c \in Calls : InvokeShortlistTop(c)
    \/ \E c \in Calls : ShortlistEvaluate(c)
    \/ \E c \in Calls : ShortlistRank(c)
    \/ \E c \in Calls : ShortlistTop(c)
    \/ \E c \in Calls : ShortlistMark(c)

SpecRank == InitRank /\ [][NextRank]_vars

\* the administrator's controls of one round: start, end (either route) and
\* reset, with the storage errors the two-statement handlers can meet
NextReset ==
    \/ \E r \in DOMAIN rounds : rounds[r].status = "pending" /\ StartRoundRequest(r)
    \/ StartRoundCount
    \/ StartRoundEvent
    \/ StartRoundRow
    \/ StartRoundRowError
    \/ \E c \in Calls : InvokeRoundEnd(c)
    \/ \E c \in Calls : RoundEndRead(c)
    \/ \E c \in Calls : RoundEndRow(c)
    \/ \E c \in Calls : RoundEndEvent(c)
    \/ \E c \in Calls : RoundEndEventError(c)
    \/ \E c \in Calls : InvokeEndRound(c)
    \/ \E c \in Calls : EndRoundFinalize(c)
    \/ \E c \in Calls : EndRoundMark(c)
    \/ \E c \in Calls : InvokeReset(c)
    \/ \E c \in Calls : ResetSubmissions(c)
    \/ \E c \in Calls : ResetResults(c)
    \/ \E c \in Calls : ResetRound(c)
    \/ \E c \in Calls : ResetEvent(c)

SpecReset == Init /\ [][NextReset]_vars

\* the V4 deployment with finalize_round_v4 behind POST /round/end, and
\* clients that choose their own question ids
NextEnd ==
    \/ \E r \in DOMAIN rounds : rounds[r].status = "pending" /\ StartRoundRequest(r)
    \/ StartRoundCount
    \/ StartRoundEvent
    \/ StartRoundRow
    \/ \E c \in Calls : InvokeBulkSubmitMalformed(c)
    \/ \E c \in Calls : BulkSelect(c)
    \/ \E c \in Calls : BulkInsert(c)
    \/ \E c \in Calls : InvokeEndRound(c)
    \/ \E c \in Calls : EndRoundFinalize(c)
    \/ \E c \in Calls : EndRoundMark(c)

SpecEnd == Init /\ [][NextEnd]_vars

\* The last minute of a round: round 1 was started DurationMinutes ago, its
\* deadline is now, and the participant has started the exam.
InitGrace ==
    /\ clock = 0
    /\ event_state = [ current_round |-> 1, round_status |-> "running",
                       round_ends_at |-> 0 ]
    /\ rounds = [ r \in Rounds |->
                    [ status |-> "active", shortlisting_completed |-> FALSE ] ]
    /\ participants = [ p \in Participants |->
                          [ is_disqualified |-> FALSE, is_qualified |-> TRUE,
                            current_round |-> 1 ] ]
    /\ exam_sessions = [ p \in Participants |-> [ r \in Rounds |->
                           [ NoSession EXCEPT !.exists = TRUE, !.started_at = 0 ] ] ]
    /\ responses = [ p \in Participants |-> [ q \in Questions |-> NULL ] ]
    /\ scores = [ p \in Participants |-> [ r \in Rounds |-> NoScore ] ]
    /\ submissions = [ t \in Tokens |-> [ r \in Rounds |-> NoSubmission ] ]
    /\ results = [ t \in Tokens |-> [ r \in Rounds |-> NoRow ] ]
    /\ calls = [ c \in Calls |-> IdleCall ]
    /\ question_count = [ r \in Rounds |-> RequiredQuestions ]
    /\ questions = Uploaded(question_count)
    /\ questionsCache = EmptyCache
    /\ admin = IdleAdmin
    /\ starting = [ s \in {1} |-> IdleStart ]

\* the exam page's submits against the end of the round
NextGrace ==
    \/ Tick
    \/ \E c \in Calls : InvokeSubmitAt(c)
    \/ \E c \in Calls : SubmitSelect(c)
    \/ \E c \in Calls : SubmitInsert(c)
    \/ \E c \in Calls : SubmitUpdate(c)
    \/ \E c \in Calls : InvokeFinalize(c)
    \/ \E c \in Calls : FinalizeLock(c)
    \/ \E c \in Calls : FinalizeAutoSubmit(c)
    \/ \E c \in Calls : FinalizeScore(c)

SpecGrace == InitGrace /\ [][NextGrace]_vars

\* ------------------------------------------------------------ properties
\* the responses table of one participant holding exactly one payload
Rows(answers) == UpsertResponses([ q \in Questions |-> NULL ], answers)

IsDone(c, op) == calls[c].op = op /\ calls[c].pc = "done"

SameSession(c, d) == calls[c].p = calls[d].p /\ calls[c].round = calls[d].round

OnlyCalls(S) == \A e \in Calls \ S : calls[e].pc = "idle"

\* C1: two overlapping SubmitExam calls of one participant with different
\* valid payloads both return success, and the responses stored afterwards
\* are exactly one of the two payloads, never a mixture of both.
C1_Original ==
    \A c, d \in Calls :
        ( /\ c < d
          /\ IsDone(c, "submit") /\ IsDone(d, "submit")
          /\ SameSession(c, d)
          /\ c \in calls[d].during
          /\ OnlyCalls({c, d})
          /\ ~InsertRaises(calls[c].answers) /\ ~InsertRaises(calls[d].answers)
          /\ calls[c].answers # calls[d].answers )
        => /\ calls[c].result.success /\ calls[d].result.success
           /\ responses[calls[c].p] \in
                  { Rows(calls[c].answers), Rows(calls[d].answers) }

\* C2: once a SubmitExam call has succeeded, every SubmitExam call that
\* arrives later for the same participant and round returns success with
\* alreadySubmitted, and the stored answers are the payload of the call
\* that submitted.
C2_Original ==
    \A f, l \in Calls :
        ( /\ f < l
          /\ IsDone(f, "submit") /\ IsDone(l, "submit")
          /\ SameSession(f, l)
          /\ f \notin calls[l].during
          /\ calls[f].result.success
          /\ \A e \in Calls : calls[e].op \in {"none", "submit"} )
        => /\ calls[l].result.success
           /\ "alreadySubmitted" \in calls[l].result.tags
           /\ \E g \in Calls :
                 /\ g < l /\ IsDone(g, "submit") /\ SameSession(g, l)
                 /\ calls[g].result.success
                 /\ "alreadySubmitted" \notin calls[g].result.tags
                 /\ responses[calls[l].p] = Rows(calls[g].answers)

\* an EndRound call (finalize_round or POST /round/end)
IsEndRound(c) == calls[c].op \in {"finalize", "end"}

\* the call passed the guard: it runs, or has run, the finalization
Executed(c) ==
    /\ IsEndRound(c)
    /\ \/ calls[c].pc \in {"fz_auto", "fz_score", "er_mark"}
       \/ /\ calls[c].pc = "done"
          /\ calls[c].result.status = 200
          /\ "alreadyCompleted" \notin calls[c].result.tags

\* at most one call of a running round passes the guard; effects need a call
C3_Inv ==
    \A r \in Rounds :
        /\ Cardinality({ c \in Calls : /\ Executed(c) /\ calls[c].running
                                       /\ calls[c].round = r }) <= 1
        /\ ( \/ rounds[r].status = "completed"
             \/ \E p \in Participants : scores[p][r].exists
             \/ \E p \in Participants :
                   exam_sessions[p][r].submission_type = "auto_round_end"
             \/ \E t \in Tokens : results[t][r].exists )
           => \E c \in Calls : Executed(c) /\ calls[c].round = r

\* a call answers alreadyCompleted: nothing changes, another call finalized
C3_Step ==
    \A c \in Calls :
        ( /\ IsEndRound(c) /\ calls[c].pc # "done" /\ calls'[c].pc = "done"
          /\ "alreadyCompleted" \in calls'[c].result.tags )
        => /\ db' = db
           /\ \E d \in Calls \ {c} : Executed(d) /\ calls[d].round = calls[c].round

\* C3: of the EndRound calls made on one running round, however they
\* overlap, at most one performs force-submit, scoring and shortlisting;
\* every other call changes no table and reports alreadyCompleted, and
\* the effects are in the tables only if a call performed them.
C3_Theorem == [](C3_Inv) /\ [][C3_Step]_vars

\* two overlapping EndRound calls have returned: one finalized, one did not
C3_Witness ==
    \E c, d \in Calls :
        /\ c # d /\ c \in calls[d].during
        /\ IsEndRound(c) /\ IsEndRound(d)
        /\ calls[c].running /\ calls[d].running
        /\ calls[c].pc = "done" /\ calls[d].pc = "done"
        /\ calls[c].round = calls[d].round
        /\ Executed(c) /\ "alreadyCompleted" \in calls[d].result.tags
        /\ \E p \in Participants :
              /\ exam_sessions[p][calls[c].round].submission_type = "auto_round_end"
              /\ scores[p][calls[c].round].exists

\* C4: an EndRound call on a round that is already completed returns a
\* success result carrying alreadyCompleted; it is never reported as failure.
C4_Original ==
    \A c \in Calls :
        ( /\ IsEndRound(c) /\ calls[c].pc = "done"
          /\ "alreadyCompleted" \in calls[c].result.tags )
        => calls[c].result.success

\* one step leaves every submitted session and its answers as they are
C7_Step ==
    \A p \in Participants, r \in Rounds :
        exam_sessions[p][r].is_submitted
        => /\ exam_sessions'[p][r].is_submitted
           /\ exam_sessions'[p][r].submission_type = exam_sessions[p][r].submission_type
           /\ exam_sessions'[p][r].submitted_at = exam_sessions[p][r].submitted_at
           /\ exam_sessions'[p][r].time_taken_seconds =
                  exam_sessions[p][r].time_taken_seconds
           /\ responses'[p] = responses[p]

\* C7: a submitted session stays submitted, and no later step changes its
\* submission type, timestamp, elapsed time or the stored answers.
C7_Original == [][C7_Step]_vars

\* a ReportViolation call that found the session in progress
Processed(c) == IsDone(c, "tab") /\ calls[c].result.tags # {}

\* C8: when two ReportViolation calls for the same in-progress session have
\* both been served, in whatever order or overlap, the session is submitted
\* as auto_violation, the participant is disqualified, and the answers of
\* the disqualifying call are stored.
C8_Original ==
    \A c, d \in Calls :
        ( c # d /\ Processed(c) /\ Processed(d) /\ SameSession(c, d) )
        => /\ exam_sessions[calls[c].p][calls[c].round].is_submitted
           /\ exam_sessions[calls[c].p][calls[c].round].submission_type =
                  "auto_violation"
           /\ participants[calls[c].p].is_disqualified
           /\ OnlyCalls({c, d}) =>
                 \E e \in {c, d} :
                    /\ "disqualified" \in calls[e].result.tags
                    /\ \A a \in Range(calls[e].answers) :
                          responses[calls[e].p][a.question_id] = a.selected_option

\* the step of a call that read tab_switch_count = 0
C9_Step ==
    \A c \in Calls :
        ( /\ calls[c].op = "tab" /\ calls[c].pc = "ts_count"
          /\ calls[c].v_session.tab_switch_count = 0
          /\ calls'[c] # calls[c] )
        => /\ calls'[c].pc = "done"
           /\ calls'[c].result.success
           /\ calls'[c].result.tags = {"warning"}
           /\ exam_sessions' =
                  [ exam_sessions EXCEPT
                      ![calls[c].p][calls[c].round].tab_switch_count = 1 ]
           /\ UNCHANGED << question_count, questions, questionsCache, event_state, rounds, participants, responses,
                           scores, submissions, results >>

\* C9: the first ReportViolation call for an in-progress session returns a
\* warning, and its commit changes nothing but the session's violation
\* counter: no submission, no disqualification, no stored answer.
C9_Theorem == [][C9_Step]_vars

\* a first violation has been answered: counter 1, nothing else touched
C9_Witness ==
    \E c \in Calls :
        /\ IsDone(c, "tab") /\ calls[c].result.tags = {"warning"}
        /\ calls[c].answers # << >>
        /\ exam_sessions[calls[c].p][calls[c].round].tab_switch_count = 1
        /\ ~exam_sessions[calls[c].p][calls[c].round].is_submitted
        /\ ~participants[calls[c].p].is_disqualified
        /\ responses[calls[c].p] = [ q \in Questions |-> NULL ]

\* disqualified only together with a session submitted as auto_violation
C10_Inv ==
    \A p \in Participants :
        participants[p].is_disqualified
        => \E r \in Rounds :
              /\ exam_sessions[p][r].is_submitted
              /\ exam_sessions[p][r].submission_type = "auto_violation"

\* each step of a handle_tab_switch call: all three effects or none
C10_Step ==
    \A c \in Calls :
        ( calls[c].op = "tab" /\ calls'[c] # calls[c] )
        => LET p == calls[c].p
               r == calls[c].round
           IN  IF calls'[c].pc = "done"
                  /\ "disqualified" \in calls'[c].result.tags
               THEN /\ exam_sessions'[p][r].is_submitted
                    /\ exam_sessions'[p][r].submission_type = "auto_violation"
                    /\ participants'[p].is_disqualified
                    /\ \A a \in Range(calls[c].answers) :
                          responses'[p][a.question_id] = a.selected_option
               ELSE /\ participants' = participants
                    /\ responses' = responses
                    /\ \A q \in Participants, o \in Rounds :
                          exam_sessions'[q][o] =
                              [ exam_sessions[q][o] EXCEPT
                                  !.tab_switch_count =
                                      exam_sessions'[q][o].tab_switch_count ]

Running(r) ==
    \/ event_state.current_round = r /\ event_state.round_status = "running"
    \/ rounds[r].status = "active"

\* a row appears in submissions only for a running round
C5_Step ==
    \A t \in Tokens, r \in Rounds :
        ( ~submissions[t][r].exists /\ submissions'[t][r].exists ) => Running(r)

\* C5: a submission row is stored only while the round it names is running;
\* a POST /submit before the round has started or after it has completed
\* stores nothing.
C5_Original == [][C5_Step]_vars

\* C6: whenever POST /submit has answered success to a request that carries
\* an attempt token, a submission row for that token and round is stored.
C6_Original ==
    \A c \in Calls :
        ( IsDone(c, "bulk") /\ calls[c].result.success /\ IsUuid(calls[c].token) )
        => submissions[calls[c].token][calls[c].round].exists

\* C11: no disqualified participant has a scores row with a rank or with
\* qualified_for_next set, in any round, whenever the disqualification happened.
C11_Original ==
    \A p \in Participants, r \in DOMAIN rounds :
        participants[p].is_disqualified /\ scores[p][r].exists =>
            scores[p][r].rank = 0 /\ ~scores[p][r].qualified_for_next

\* C18: no exam_sessions row is inserted for a round that is completed when
\* the row is inserted.
C18_Step ==
    \A p \in Participants, r \in DOMAIN rounds :
        ~exam_sessions[p][r].exists /\ exam_sessions'[p][r].exists =>
            rounds[r].status # "completed"

C18_Original == [][C18_Step]_vars

\* C12: a SubmitExam call of type manual that arrives more than the grace
\* tolerance after round_ends_at (a minute or more) is rejected and records
\* no answers.
C12_Step ==
    \A c \in Calls :
        /\ calls[c].op = "submit" /\ calls[c].stype = "manual"
        /\ calls[c].arrived > event_state.round_ends_at
        /\ calls[c].pc # "done" /\ calls'[c].pc = "done"
        => /\ ~calls'[c].result.success
           /\ responses' = responses

C12_Original == [][C12_Step]_vars

\* the answers of a payload are stored for the participant
Recorded(c) ==
    \A a \in Range(calls[c].answers) :
        responses[calls[c].p][a.question_id] = UpperTrim(a.selected_option)

\* C13: the participant's SubmitExam call of type auto_timer, arriving at any
\* time, or of type manual, arriving no later than the deadline plus the
\* grace tolerance, is accepted: its answers are recorded.
C13_Original ==
    \A c \in Calls :
        /\ IsDone(c, "submit")
        /\ \/ calls[c].stype = "auto_timer"
           \/ calls[c].stype = "manual" /\ calls[c].arrived <= event_state.round_ends_at
        /\ ~InsertRaises(calls[c].answers)
        /\ \A d \in Calls \ {c} : calls[d].op # "submit"
        => calls[c].result.success /\ Recorded(c)

\* C14: for any round number at most one StartRound call ever succeeds: a
\* StartRound call made for a round that has already been started is rejected.
C14_Original ==
    admin.pc = "idle" /\ admin.started => ~admin.result.success

\* C15: at most one round has status 'active' at any time.
C15_Original ==
    Cardinality({ r \in DOMAIN rounds : rounds[r].status = "active" }) <= 1

\* C16: when round N is set running it has at least 15 questions and, for
\* N > 1, round N-1 is completed with shortlisting_completed; a StartRound
\* call that is rejected changes no table.
C16_Step ==
    /\ event_state'.round_status = "running" /\ event_state' # event_state
       => LET n == event_state'.current_round IN
          /\ question_count[n] >= RequiredQuestions
          /\ n > 1 => /\ rounds[n - 1].status = "completed"
                      /\ rounds[n - 1].shortlisting_completed
    /\ admin.pc # "idle" /\ admin'.pc = "idle" /\ ~admin'.result.success
       => UNCHANGED db

C16_Original == [][C16_Step]_vars

\* C17: StartExam calls of one participant for one round, one after the other
\* or at the same time, create the session once: a call that finds the session
\* or loses the race for it answers success and leaves the session (start
\* time, violation count, submitted flag) as it is, and only a call that
\* finds no session creates one.
C17_Step ==
    \A s \in DOMAIN starting :
        starting[s].pc \in {"st_select", "st_insert"} /\ starting'[s].pc = "idle"
        => LET p == starting[s].p
               r == starting[s].round
           IN  /\ starting'[s].result.success
               /\ exam_sessions[p][r].exists
                  => /\ exam_sessions'[p][r] = exam_sessions[p][r]
                     /\ "resumed" \in starting'[s].result.tags
               /\ ~exam_sessions[p][r].exists
                  => /\ exam_sessions'[p][r].exists
                     /\ starting'[s].result.tags = {}

C17_Theorem == [][C17_Step]_vars

\* one call created the session and another lost the race for it (23505);
\* the session is older than now and counts a violation
C17_Witness ==
    \E s \in DOMAIN starting :
        /\ starting[s].pc = "idle" /\ "23505" \in starting[s].result.tags
        /\ starting[s].round \in DOMAIN rounds
        /\ \E o \in DOMAIN starting \ {s} :
              starting[o].pc = "idle" /\ starting[o].result.status = 200
              /\ starting[o].result.tags = {}
        /\ exam_sessions[starting[s].p][starting[s].round].started_at < clock
        /\ exam_sessions[starting[s].p][starting[s].round].tab_switch_count = 1

\* C19: a participant starts an exam in round N > 1 only with a round N-1
\* result that has qualified_for_next, and not disqualified.
C19_Step ==
    \A p \in Participants, n \in DOMAIN rounds :
        n > 1 /\ ~exam_sessions[p][n].exists /\ exam_sessions'[p][n].exists
        => /\ scores[p][n - 1].exists
           /\ scores[p][n - 1].qualified_for_next
           /\ ~participants[p].is_disqualified

C19_Original == [][C19_Step]_vars

\* the option is the key's, compared without case and outer blanks
IsCorrect(q, option) == UpperTrim(option) = UpperTrim(CorrectOption(q))

\* C20: the score that scoring stores for a submitted session (a submission)
\* is the number of its recorded answers of the round whose option is the
\* key's, compared without case and outer blanks.
C20_Step ==
    /\ \A c \in Calls :
          calls[c].pc = "fz_score" /\ calls'[c].pc = "done"
          => \A p \in Participants :
                exam_sessions'[p][calls[c].round].is_submitted
                => /\ scores'[p][calls[c].round].exists
                   /\ scores'[p][calls[c].round].correct_answers =
                        Cardinality({ q \in Questions :
                            /\ responses[p][q] # NULL
                            /\ IsCorrect(q, responses[p][q]) })
    /\ \A c \in Calls :
          calls[c].pc = "er_rpc" /\ calls'[c].pc = "er_mark"
          => \A t \in Tokens :
                submissions[t][calls[c].round].exists
                => LET answers == submissions[t][calls[c].round].answers IN
                   /\ results'[t][calls[c].round].exists
                   /\ results'[t][calls[c].round].score =
                        Cardinality({ i \in DOMAIN answers :
                            /\ answers[i].question_id \in Questions
                            /\ QuestionRound(answers[i].question_id) = calls[c].round
                            /\ IsCorrect(answers[i].question_id,
                                         answers[i].selected_option) })

C20_Theorem == [][C20_Step]_vars

\* a session with one right and one wrong stored answer has been scored 1
C20_Witness ==
    \E c \in Calls, p \in Participants :
        /\ IsDone(c, "finalize") /\ calls[c].result.success
        /\ \A q \in Questions : responses[p][q] # NULL
        /\ scores[p][calls[c].round].exists
        /\ scores[p][calls[c].round].correct_answers = 1

\* the entries of a payload that the responses table can hold
ValidEntries(answers) ==
    { a \in Range(answers) :
        a.question_id \in Questions /\ UpperTrim(a.selected_option) \in ValidOptions }

\* C23: a SubmitExam payload with an unknown question id or a malformed
\* option letter is accepted with those entries dropped: the call succeeds,
\* the valid entries are recorded and the session is marked submitted.
C23_Original ==
    \A c \in Calls :
        /\ IsDone(c, "submit")
        /\ ValidEntries(calls[c].answers) # Range(calls[c].answers)
        => /\ calls[c].result.success
           /\ SessionOf(calls[c].p, calls[c].round).is_submitted
           /\ \A a \in ValidEntries(calls[c].answers) :
                 responses[calls[c].p][a.question_id] # NULL

\* C30: every exam session with is_submitted = TRUE has a time_taken_seconds,
\* whether SubmitExam, a disqualifying tab switch or the round's end
\* submitted it.
C30_Theorem ==
    \A p \in DOMAIN exam_sessions, r \in DOMAIN rounds :
        exam_sessions[p][r].is_submitted
        => exam_sessions[p][r].time_taken_seconds # NoTime

\* a session that the end of the round has submitted, a minute after its start
C30_Witness ==
    \E p \in DOMAIN exam_sessions, r \in DOMAIN rounds :
        /\ exam_sessions[p][r].is_submitted
        /\ exam_sessions[p][r].submission_type = "auto_round_end"
        /\ exam_sessions[p][r].time_taken_seconds = 1
\* C29: a submit request that finds its session already submitted is answered
\* with the alreadySubmitted flag and with the elapsed time that the original
\* submission stored in the session.
C29_Original ==
    \A c \in Calls :
        ( IsDone(c, "submit") /\ "alreadySubmitted" \in calls[c].result.tags )
        => calls[c].timeTakenSeconds =
               SessionOf(calls[c].p, calls[c].round).time_taken_seconds

\* the questions of a round
RoundQuestions(r) == { q \in Questions : QuestionRound(q) = r }

\* C21: every stored score of a candidate in a round lies between 0 and the
\* number of questions of that round, whatever payload was submitted.
C21_Original ==
    /\ \A t \in DOMAIN results, r \in DOMAIN rounds :
          results[t][r].exists
          => results[t][r].score \in 0..Cardinality(RoundQuestions(r))
    /\ \A p \in DOMAIN scores, r \in DOMAIN rounds :
          scores[p][r].exists
          => scores[p][r].score \in 0..Cardinality(RoundQuestions(r))

\* C22: the answers stored for a submission hold at most one selection for
\* each question id, whatever payload the client sent.
C22_Original ==
    \A t \in DOMAIN submissions, r \in DOMAIN rounds :
        submissions[t][r].exists
        => \A i, j \in DOMAIN submissions[t][r].answers :
              submissions[t][r].answers[i].question_id =
                  submissions[t][r].answers[j].question_id
              => i = j

\* C28: at the moment POST /round/end answers success for a round, every
\* submission stored for that round has a results row with its score.
C28_Step ==
    \A c \in Calls :
        ( /\ calls[c].op \in {"round_end", "end"}
          /\ calls[c].pc # "done" /\ calls'[c].pc = "done"
          /\ calls'[c].result.success )
        => \A t \in DOMAIN submissions :
              submissions'[t][calls'[c].round].exists
              => results'[t][calls'[c].round].exists

C28_Original == [][C28_Step]_vars

\* the candidates that carry a rank in a table of score rows
Ranked(table, r) == { k \in DOMAIN table : table[k][r].exists /\ table[k][r].rank # 0 }

\* elapsed time ascending, a missing time after every recorded one
TimeOrder(ta, tb) == ta # NoTime /\ (tb = NoTime \/ ta < tb)

\* score descending, then elapsed time ascending with null times last, then
\* candidate identity ascending
Precedes(sa, ta, ia, sb, tb, ib) ==
    \/ sa > sb
    \/ sa = sb /\ TimeOrder(ta, tb)
    \/ sa = sb /\ ta = tb /\ ia < ib

TokenNumber(t) == CHOOSE i \in DOMAIN TokenOrder : TokenOrder[i] = t

\* C24: after ranking a round the ranked candidates carry the ranks 1..k,
\* none shared and none skipped, and a smaller rank goes with an earlier place
\* in the order: score descending, elapsed time ascending with null times
\* last, candidate identity ascending.
C24_Theorem ==
    \A r \in DOMAIN rounds :
        /\ { scores[p][r].rank : p \in Ranked(scores, r) }
               = 1..Cardinality(Ranked(scores, r))
        /\ \A p, o \in Ranked(scores, r) :
              scores[p][r].rank < scores[o][r].rank
              => Precedes(scores[p][r].correct_answers, scores[p][r].time_taken_seconds, p,
                          scores[o][r].correct_answers, scores[o][r].time_taken_seconds, o)
        /\ { results[t][r].rank : t \in Ranked(results, r) }
               = 1..Cardinality(Ranked(results, r))
        /\ \A t, o \in Ranked(results, r) :
              results[t][r].rank < results[o][r].rank
              => Precedes(results[t][r].score, results[t][r].time_taken_seconds,
                          TokenNumber(t),
                          results[o][r].score, results[o][r].time_taken_seconds,
                          TokenNumber(o))

\* three candidates ranked by generate_rankings and by rank_round, two of them
\* equal in score and in time
C24_Witness ==
    /\ Cardinality(Ranked(scores, 1)) = 3
    /\ Cardinality(Ranked(results, 1)) = 3
    /\ \E p, o \in Ranked(scores, 1) :
          /\ p # o
          /\ scores[p][1].correct_answers = scores[o][1].correct_answers
          /\ scores[p][1].time_taken_seconds = scores[o][1].time_taken_seconds
    /\ \E c \in Calls : IsDone(c, "shortlist") /\ calls[c].result.success

\* a request that has scored and ranked the round in the v3 tables
HasScored(d, r) ==
    /\ calls[d].pc = "done" /\ calls[d].round = r
    /\ \/ calls[d].op = "rescore"
       \/ calls[d].op = "finalize" /\ calls[d].result.success

\* a request that has evaluated and ranked the round in the V4 tables
HasEvaluated(d, r) ==
    /\ calls[d].pc = "done" /\ calls[d].round = r
    /\ calls[d].op = "shortlist" /\ calls[d].result.success

\* C25: scoring and ranking a round again, its sessions, answers,
\* disqualification flags and answer key unchanged, leaves every score row
\* (one per candidate and round) with the same score, time and rank.
C25_Step ==
    \A c \in Calls :
        /\ ( /\ calls[c].op = "rescore" /\ calls'[c] # calls[c]
             /\ \E d \in Calls \ {c} : HasScored(d, calls[c].round) )
           => \A p \in DOMAIN scores :
                LET old == scores[p][calls[c].round]
                    new == scores'[p][calls[c].round]
                IN  /\ new.exists = old.exists
                    /\ new.correct_answers = old.correct_answers
                    /\ new.time_taken_seconds = old.time_taken_seconds
                    /\ new.rank = old.rank
        /\ ( /\ calls[c].op = "shortlist" /\ calls[c].pc \in {"sl_eval", "sl_rank"}
             /\ calls'[c] # calls[c]
             /\ \E d \in Calls \ {c} : HasEvaluated(d, calls[c].round) )
           => \A t \in DOMAIN results :
                LET old == results[t][calls[c].round]
                    new == results'[t][calls[c].round]
                IN  /\ new.exists = old.exists
                    /\ new.score = old.score
                    /\ new.time_taken_seconds = old.time_taken_seconds
                    /\ new.rank = old.rank

C25_Theorem == [][C25_Step]_vars

\* finalize_round has scored three candidates, two of them ranked, and the
\* scoring functions have been run again
C25_Witness ==
    \E c, d \in Calls :
        /\ d < c
        /\ calls[d].op = "finalize" /\ HasScored(d, 1)
        /\ IsDone(c, "rescore")
        /\ Cardinality(Ranked(scores, 1)) >= 2
        /\ \A p \in DOMAIN scores : scores[p][1].exists

\* the candidates marked qualified in a table of score rows
Qualified(table, r) ==
    { k \in DOMAIN table : table[k][r].exists /\ table[k][r].qualified_for_next }

Min(a, b) == IF a < b THEN a ELSE b

\* the step is a run of perform_shortlisting with this cutoff
ShortlistingStep(c, top) ==
    \/ /\ calls[c].pc = "idle" /\ calls'[c].op = "shortlisting"
       /\ calls'[c].top = top
    \/ /\ calls[c].pc = "fz_score" /\ calls'[c].pc = "done"
       /\ top = TopQualifyCount

\* the step is a run of shortlist_round with this cutoff
ShortlistRoundStep(c, top) ==
    /\ calls[c].pc = "sl_short" /\ calls'[c].pc = "sl_mark"
    /\ top = FinalTopCount(calls[c].top)

\* C26: after Shortlist(round, topN) the qualified candidates are exactly the
\* ranked candidates of rank at most topN, min(topN, ranked) of them: all of
\* the ranked candidates when there are fewer than topN.
C26_Step ==
    \A c \in Calls, top \in TopInputs \cup {TopQualifyCount} :
        /\ ShortlistingStep(c, top)
           => LET r == calls'[c].round IN
              /\ Qualified(scores', r) =
                     { p \in Ranked(scores', r) : scores'[p][r].rank <= top }
              /\ Cardinality(Qualified(scores', r)) =
                     Min(top, Cardinality(Ranked(scores', r)))
        /\ ShortlistRoundStep(c, top)
           => LET r == calls'[c].round IN
              /\ Qualified(results', r) =
                     { t \in Ranked(results', r) : results'[t][r].rank <= top }
              /\ Cardinality(Qualified(results', r)) =
                     Min(top, Cardinality(Ranked(results', r)))

HasShortlisted(d, r) ==
    /\ calls[d].pc = "done" /\ calls[d].round = r
    /\ \/ calls[d].op = "shortlisting"
       \/ calls[d].op = "finalize" /\ calls[d].result.success

\* the rows with no candidate marked qualified
Unmarked(table, r) ==
    [ k \in DOMAIN table |-> [ table[k] EXCEPT ![r].qualified_for_next = FALSE ] ]

\* the participants as they enter round r, before any shortlisting
Entering(parts, r) ==
    [ p \in DOMAIN parts |->
        [ parts[p] EXCEPT !.is_qualified = TRUE, !.current_round = r ] ]

\* C27: a shortlist run that follows an earlier run, with the same topN or
\* with another, leaves the state a single run with its own topN produces:
\* the qualified flags of the round, and each participant's is_qualified flag
\* and current_round.
C27_Step ==
    \A c \in Calls, top \in TopInputs \cup {TopQualifyCount} :
        /\ ( /\ ShortlistingStep(c, top)
             /\ \E d \in Calls \ {c} : HasShortlisted(d, calls'[c].round) )
           => LET r == calls'[c].round
                  once == ShortlistScores(Unmarked(scores', r), r, top)
              IN  /\ scores' = once
                  /\ participants' =
                         ShortlistParticipants(Entering(participants, r), once, r)
        /\ ( /\ ShortlistRoundStep(c, top)
             /\ \E d \in Calls \ {c} : HasEvaluated(d, calls[c].round) )
           => LET r == calls[c].round IN
              /\ results' = ShortlistRound(Unmarked(results', r), r, top)
              /\ participants' = participants

C27_Theorem == [][C27_Step]_vars

\* finalize_round has qualified three ranked candidates with the default
\* cutoff; a second run with topN = 1 has sent two of them back
C27_Witness ==
    \E c, d \in Calls :
        /\ IsDone(c, "shortlisting") /\ calls[c].top = 1
        /\ d < c /\ calls[d].op = "finalize" /\ HasShortlisted(d, 1)
        /\ OnlyCalls({c, d})
        /\ Cardinality(Ranked(scores, 1)) = 3
        /\ Cardinality({ p \in DOMAIN participants :
                           ~participants[p].is_qualified
                           /\ participants[p].current_round = 1 }) = 2

\* the request was answered "round ended": success without alreadyCompleted
ReportsEnded(c) ==
    /\ IsDone(c, "round_end")
    /\ calls[c].result.success
    /\ "alreadyCompleted" \notin calls[c].result.tags

\* C32: of the POST /round/end calls (admin.js) that overlap on a running
\* round, exactly one performs the transition and reports the round as
\* ended; the others return alreadyCompleted.
C32_Original ==
    \A c, d \in Calls :
        ( /\ c # d
          /\ calls[c].round = calls[d].round
          /\ calls[c].running /\ calls[d].running
          /\ c \in calls[d].during \/ d \in calls[c].during )
        => ~( ReportsEnded(c) /\ ReportsEnded(d) )

\* the request has run the INSERT of submit_bulk_answers for this key
HasInserted(c, t, r) ==
    /\ IsDone(c, "bulk") /\ calls[c].token = t /\ calls[c].round = r
    /\ "alreadySubmitted" \notin calls[c].result.tags

\* C33: whatever POST /submit calls were made for an attempt token and a
\* round, repeated or overlapping, the one submissions row of that key holds
\* the complete payload of exactly one of them.
C33_Theorem ==
    \A t \in DOMAIN submissions, r \in DOMAIN rounds :
        submissions[t][r].exists
        => \E c \in Calls :
              /\ calls[c].op = "bulk" /\ calls[c].token = t /\ calls[c].round = r
              /\ submissions[t][r].answers = calls[c].answers

\* two overlapping calls with different payloads have both run their INSERT
C33_Witness ==
    \E c, d \in Calls, t \in DOMAIN submissions, r \in DOMAIN rounds :
        /\ c # d /\ d \in calls[c].during
        /\ HasInserted(c, t, r) /\ HasInserted(d, t, r)
        /\ calls[c].answers # calls[d].answers
        /\ submissions[t][r].exists

\* C34: a submit_bulk_answers call that returns already_submitted = false
\* has its own payload in the submissions row of its token and round.
C34_Step ==
    \A c \in Calls :
        ( /\ calls[c].pc = "sb_insert" /\ calls'[c].pc = "done"
          /\ "alreadySubmitted" \notin calls'[c].result.tags )
        => LET row == submissions'[calls[c].token][calls[c].round] IN
           /\ row.exists
           /\ row.answers = calls[c].answers
           /\ row.time_taken_seconds = calls[c].time

C34_Original == [][C34_Step]_vars

\* C35: EndRound changes state only for a round that is running: a call for
\* a round that is pending (not started, or reset) neither marks it
\* completed nor runs scoring or shortlisting.
C35_Step ==
    \A c \in Calls :
        ( /\ calls'[c].op \in {"end", "round_end"}
          /\ calls'[c] # calls[c]
          /\ calls'[c].round \in DOMAIN rounds
          /\ rounds[calls'[c].round].status = "pending" )
        => /\ rounds'[calls'[c].round].status = "pending"
           /\ event_state' = event_state
           /\ results' = results

C35_Original == [][C35_Step]_vars

\* no administrator request is being served
AdminIdle == admin.pc = "idle" /\ \A c \in Calls : calls[c].pc \in {"idle", "done"}

\* C36: whenever no admin request is in flight, event_state and rounds
\* agree on the current round: 'running' exactly with 'active', 'completed'
\* exactly with 'completed', also after a request failed between its writes.
C36_Original ==
    ( AdminIdle /\ event_state.current_round \in DOMAIN rounds )
    => LET status == rounds[event_state.current_round].status IN
       /\ event_state.round_status = "running" <=> status = "active"
       /\ event_state.round_status = "completed" <=> status = "completed"

\* C37: EndRound on a running round always completes the round and returns
\* its summary, whatever answers are stored for the round.
C37_Step ==
    \A c \in Calls :
        ( /\ calls[c].pc = "er_rpc" /\ calls'[c].pc # "er_rpc"
          /\ rounds[calls[c].round].status = "active" )
        => /\ rounds'[calls[c].round].status = "completed"
           /\ calls'[c].pc = "er_mark"

C37_Original == [][C37_Step]_vars


\* ------------------------------------------ POST /login, register_participant
\* phone numbers as they are typed; the route and the function TRIM them
PhoneInputs == {"900", " 900 ", "901"}

Trim(text) == IF text = " 900 " THEN "900" ELSE text

\* participants.id values, given out in order by the column default
ParticipantIds == {1, 2, 3, 4}

\* v_max_attempts: the attempts that draw a random QC- system id
MaxAttempts == 5

\* the values the random draw of a QC- system id can give
SystemIds == {"QC-00001", "QC-00002"}

\* the fallback system id, built from a fresh UUID
FallbackId(i) == << "QC-u1", "QC-u2", "QC-u3", "QC-u4" >>[i]

NoParticipant ==
    [ exists |-> FALSE, phone_number |-> NULL, system_id |-> NULL,
      is_disqualified |-> FALSE ]

IdleRegister ==
    [ op |-> "none", pc |-> "idle", phone |-> "", v_attempts |-> 0,
      during |-> {},
      result |-> [ status |-> 0, success |-> FALSE, is_new |-> FALSE,
                   participant_id |-> 0 ] ]

RegisterDone(c, status, success, is_new, id) ==
    [ calls[c] EXCEPT !.pc = "done",
                      !.result = [ status |-> status, success |-> success,
                                   is_new |-> is_new, participant_id |-> id ] ]

\* SELECT * INTO v_participant FROM participants WHERE phone_number = ...
ByPhone(rows, phone) ==
    { i \in DOMAIN rows : rows[i].exists /\ rows[i].phone_number = phone }

\* idx_participants_phone_unique refuses the INSERT
PhoneConflictNone(rows, phone) == FALSE

PhoneConflict(rows, phone) == ByPhone(rows, phone) # {}

\* the UNIQUE constraint of participants.system_id refuses the INSERT
SystemIdConflict(rows, sid) ==
    \E i \in DOMAIN rows : rows[i].exists /\ rows[i].system_id = sid

NextParticipantId(rows) ==
    CHOOSE i \in DOMAIN rows :
        ~rows[i].exists /\ \A j \in DOMAIN rows : ~rows[j].exists => i <= j

\* the table with one participant registered earlier, disqualified or not
InitRegister ==
    /\ clock = 0
    /\ \E active \in BOOLEAN :
          event_state = [ current_round |-> 0, round_status |-> "not_started",
                          round_ends_at |-> NoTime, event_active |-> active ]
    /\ rounds = [ r \in Rounds |->
                    [ status |-> "pending", shortlisting_completed |-> FALSE ] ]
    /\ \E before \in {0, 1}, disq \in BOOLEAN :
          participants =
              [ i \in ParticipantIds |->
                  IF i = 1 /\ before = 1
                  THEN [ exists |-> TRUE, phone_number |-> "901",
                         system_id |-> "QC-00001", is_disqualified |-> disq ]
                  ELSE NoParticipant ]
    /\ exam_sessions = [ p \in Participants |-> [ r \in Rounds |-> NoSession ] ]
    /\ responses = [ p \in Participants |-> [ q \in Questions |-> NULL ] ]
    /\ scores = [ p \in Participants |-> [ r \in Rounds |-> NoScore ] ]
    /\ submissions = [ t \in Tokens |-> [ r \in Rounds |-> NoSubmission ] ]
    /\ results = [ t \in Tokens |-> [ r \in Rounds |-> NoRow ] ]
    /\ calls = [ c \in Calls |-> IdleRegister ]
    /\ admin = IdleAdmin
    /\ starting = [ s \in {1} |-> IdleStart ]
    /\ question_count = [ r \in Rounds |-> RequiredQuestions ]
    /\ questions = Uploaded(question_count)
    /\ questionsCache = EmptyCache

RegisterUnchanged ==
    UNCHANGED << clock, question_count, questions, questionsCache, event_state, rounds, exam_sessions,
                 responses, scores, admin, starting, v4 >>

\* POST /login: name, collegeName and phoneNumber are trimmed and passed on
InvokeRegister(c) ==
    /\ CanInvoke(c)
    /\ \E phone \in PhoneInputs :
          calls' = [ calls EXCEPT ![c] =
                       [ IdleRegister EXCEPT
                           !.op = "register", !.pc = "rg_select",
                           !.phone = Trim(phone),
                           !.during = { d \in Calls :
                                          calls[d].pc \notin {"idle", "done"} } ] ]
    /\ UNCHANGED participants
    /\ RegisterUnchanged

\* register_participant up to its loop: the event check and the SELECT by phone
RegisterSelect(c) ==
    /\ calls[c].pc = "rg_select"
    /\ LET found == ByPhone(participants, calls[c].phone) IN
       calls' = [ calls EXCEPT ![c] =
           IF ~event_state.event_active
           THEN RegisterDone(c, 400, FALSE, FALSE, 0)
           ELSE IF found # {}
           THEN LET i == CHOOSE i \in found : TRUE IN
                IF participants[i].is_disqualified
                THEN RegisterDone(c, 403, FALSE, FALSE, 0)
                ELSE RegisterDone(c, 200, TRUE, FALSE, i)
           ELSE [ calls[c] EXCEPT !.pc = "rg_insert" ] ]
    /\ UNCHANGED participants
    /\ RegisterUnchanged

\* one turn of the loop: draw a system id, INSERT; on unique_violation look
\* the phone up again and return that participant, or try again
RegisterInsert(c) ==
    /\ calls[c].pc = "rg_insert"
    /\ LET v_attempts == calls[c].v_attempts + 1
           i == NextParticipantId(participants)
       IN
       \E sid \in IF v_attempts <= MaxAttempts THEN SystemIds ELSE { FallbackId(i) } :
          IF \/ PhoneConflict(participants, calls[c].phone)
             \/ SystemIdConflict(participants, sid)
          THEN /\ calls' = [ calls EXCEPT ![c] =
                    IF v_attempts > MaxAttempts + 3
                    THEN RegisterDone(c, 500, FALSE, FALSE, 0)
                    ELSE LET found == ByPhone(participants, calls[c].phone) IN
                         IF found # {}
                         THEN [ RegisterDone(c, 200, TRUE, FALSE,
                                             CHOOSE j \in found : TRUE)
                                  EXCEPT !.v_attempts = v_attempts ]
                         ELSE [ calls[c] EXCEPT !.v_attempts = v_attempts ] ]
               /\ UNCHANGED participants
          ELSE /\ participants' =
                    [ participants EXCEPT ![i] =
                        [ exists |-> TRUE, phone_number |-> calls[c].phone,
                          system_id |-> sid, is_disqualified |-> FALSE ] ]
               /\ calls' = [ calls EXCEPT ![c] =
                    [ RegisterDone(c, 200, TRUE, TRUE, i)
                        EXCEPT !.v_attempts = v_attempts ] ]
    /\ RegisterUnchanged

NextRegister ==
    \E c \in Calls :
        \/ InvokeRegister(c)
        \/ RegisterSelect(c)
        \/ RegisterInsert(c)

SpecRegister == InitRegister /\ [][NextRegister]_vars

\* C38: however register_participant calls with one phone number overlap,
\* participants holds at most one row with that number, and every call that
\* succeeds returns the id of that row.
C38_Theorem ==
    /\ \A phone \in { Trim(x) : x \in PhoneInputs } :
          Cardinality(ByPhone(participants, phone)) <= 1
    /\ \A c \in Calls :
          ( calls[c].pc = "done" /\ calls[c].result.success )
          => ByPhone(participants, calls[c].phone) = { calls[c].result.participant_id }

\* two overlapping calls with one phone number both succeeded: one inserted
\* the row, the other was refused by the index and returned the same row
C38_Witness ==
    \E c, d \in Calls :
        /\ c # d
        /\ calls[c].phone = calls[d].phone
        /\ c \in calls[d].during
        /\ calls[c].pc = "done" /\ calls[c].result.success /\ calls[c].result.is_new
        /\ calls[d].pc = "done" /\ calls[d].result.success
        /\ ~calls[d].result.is_new /\ calls[d].v_attempts >= 1


\* ------------------------------------------------- POST /answer (per question)
\* questionId as the page sends it: a question of the round, or no question
QuestionIdInputs == Questions \cup {3}

\* selectedOption as the page sends it; NULL is an answer left empty
OptionInputs == {"a", "B", "x", NULL}

\* selectedOption.toUpperCase()
ToUpperCase(x) ==
    CASE x = "a" -> "A"
      [] x = "x" -> "X"
      [] OTHER -> x

\* questions.question_number of the question with this id
QuestionNumber(q) == q

\* the last question of a round, as POST /answer writes it
LastQuestionNumber == 15

AnswerSession == [ exists |-> TRUE, is_submitted |-> FALSE,
                   current_question_number |-> 1 ]

IdleAnswer ==
    [ op |-> "none", pc |-> "idle", p |-> 1, round |-> 0, questionId |-> 0,
      selectedOption |-> NULL, examSession |-> AnswerSession,
      result |-> NoResult ]

AnswerDone(c, status, success) ==
    [ calls[c] EXCEPT !.pc = "done",
                      !.result = [ status |-> status, success |-> success,
                                   tags |-> {} ] ]

\* the round is running and the participant's exam has been started
\* (POST /start-exam inserts the session with current_question_number 1)
InitAnswer ==
    /\ clock = 0
    /\ event_state = [ current_round |-> 1, round_status |-> "running",
                       round_ends_at |-> NoTime ]
    /\ rounds = [ r \in Rounds |->
                    [ status |-> "active", shortlisting_completed |-> FALSE ] ]
    /\ participants = [ p \in Participants |->
                          [ is_disqualified |-> FALSE, is_qualified |-> TRUE,
                            current_round |-> 1 ] ]
    /\ exam_sessions = [ p \in Participants |-> [ r \in Rounds |-> AnswerSession ] ]
    /\ responses = [ p \in Participants |-> [ q \in Questions |-> "none" ] ]
    /\ scores = [ p \in Participants |-> [ r \in Rounds |-> NoScore ] ]
    /\ submissions = [ t \in Tokens |-> [ r \in Rounds |-> NoSubmission ] ]
    /\ results = [ t \in Tokens |-> [ r \in Rounds |-> NoRow ] ]
    /\ calls = [ c \in Calls |-> IdleAnswer ]
    /\ admin = IdleAdmin
    /\ starting = [ s \in {1} |-> IdleStart ]
    /\ question_count = [ r \in Rounds |-> RequiredQuestions ]
    /\ questions = Uploaded(question_count)
    /\ questionsCache = EmptyCache

AnswerUnchanged ==
    UNCHANGED << clock, question_count, questions, questionsCache, event_state, rounds, participants,
                 scores, admin, starting, v4 >>

InvokeAnswer(c) ==
    /\ CanInvoke(c)
    /\ \E q \in QuestionIdInputs, o \in OptionInputs :
          calls' = [ calls EXCEPT ![c] =
                       [ IdleAnswer EXCEPT !.op = "answer", !.pc = "an_session",
                                           !.questionId = q,
                                           !.selectedOption = o ] ]
    /\ UNCHANGED << exam_sessions, responses >>
    /\ AnswerUnchanged

\* the event state and the exam session are read
AnswerReadSession(c) ==
    /\ calls[c].pc = "an_session"
    /\ calls' = [ calls EXCEPT ![c] =
         IF event_state.round_status # "running"
         THEN AnswerDone(c, 400, FALSE)
         ELSE LET examSession == exam_sessions[calls[c].p][event_state.current_round] IN
              IF ~examSession.exists \/ examSession.is_submitted
              THEN AnswerDone(c, 400, FALSE)
              ELSE [ calls[c] EXCEPT !.pc = "an_question",
                                     !.round = event_state.current_round,
                                     !.examSession = examSession ] ]
    /\ UNCHANGED << exam_sessions, responses >>
    /\ AnswerUnchanged

\* the question is read and checked against the session that was read
AnswerReadQuestion(c) ==
    /\ calls[c].pc = "an_question"
    /\ LET normalizedOption == ToUpperCase(calls[c].selectedOption) IN
       calls' = [ calls EXCEPT ![c] =
         IF calls[c].questionId \notin Questions
         THEN AnswerDone(c, 404, FALSE)
         ELSE IF QuestionNumber(calls[c].questionId)
                     # calls[c].examSession.current_question_number
         THEN AnswerDone(c, 400, FALSE)
         ELSE IF normalizedOption # NULL /\ normalizedOption \notin ValidOptions
         THEN AnswerDone(c, 400, FALSE)
         ELSE [ calls[c] EXCEPT !.pc = "an_upsert" ] ]
    /\ UNCHANGED << exam_sessions, responses >>
    /\ AnswerUnchanged

\* responses.upsert(..., onConflict: participant_id,question_id)
AnswerUpsert(c) ==
    /\ calls[c].pc = "an_upsert"
    /\ responses' = [ responses EXCEPT ![calls[c].p][calls[c].questionId] =
                        ToUpperCase(calls[c].selectedOption) ]
    /\ calls' = [ calls EXCEPT ![c].pc = "an_update" ]
    /\ UNCHANGED exam_sessions
    /\ AnswerUnchanged

\* the session moves to the question after the one that was read
AnswerUpdate(c) ==
    /\ calls[c].pc = "an_update"
    /\ LET nextQuestion == calls[c].examSession.current_question_number + 1
           isLastQuestion ==
               calls[c].examSession.current_question_number >= LastQuestionNumber
       IN  exam_sessions' =
               IF isLastQuestion THEN exam_sessions
               ELSE [ exam_sessions EXCEPT
                        ![calls[c].p][calls[c].round].current_question_number =
                            nextQuestion ]
    /\ calls' = [ calls EXCEPT ![c] = AnswerDone(c, 200, TRUE) ]
    /\ UNCHANGED responses
    /\ AnswerUnchanged

NextAnswer ==
    \E c \in Calls :
        \/ InvokeAnswer(c)
        \/ AnswerReadSession(c)
        \/ AnswerReadQuestion(c)
        \/ AnswerUpsert(c)
        \/ AnswerUpdate(c)

SpecAnswer == InitAnswer /\ [][NextAnswer]_vars

\* C31: whatever the order and overlap of one participant's POST /answer
\* calls, a response is written only for the question whose number is the
\* session's current question number, and that number never decreases.
C31_Step ==
    \A p \in Participants, r \in Rounds :
        /\ \A q \in Questions :
              responses'[p][q] # responses[p][q]
              => QuestionNumber(q) = exam_sessions[p][r].current_question_number
        /\ exam_sessions'[p][r].current_question_number
              >= exam_sessions[p][r].current_question_number

C31_Original == [][C31_Step]_vars


\* ---------------------------- POST /start-exam with the awaited auditLog
\* how the INSERT INTO audit_logs of one call ends, when it ends
AuditOutcomes == {"written", "failed"}

NoExamSession == [ exists |-> FALSE, is_submitted |-> FALSE,
                   current_question_number |-> 1 ]

IdleAudited ==
    [ op |-> "none", pc |-> "idle", p |-> 1, round |-> 0, audit |-> "none",
      result |-> NoResult ]

AuditedDone(c, status, success, tags) ==
    [ calls[c] EXCEPT !.pc = "done",
                      !.result = [ status |-> status, success |-> success,
                                   tags |-> tags ] ]

\* the round is running (or not yet), no exam has been started
InitAudit ==
    /\ clock = 0
    /\ \E status \in {"running", "not_started"} :
          event_state = [ current_round |-> 1, round_status |-> status,
                          round_ends_at |-> NoTime ]
    /\ rounds = [ r \in Rounds |->
                    [ status |-> IF event_state.round_status = "running"
                                 THEN "active" ELSE "pending",
                      shortlisting_completed |-> FALSE ] ]
    /\ \E disq \in BOOLEAN :
          participants = [ p \in Participants |->
                             [ is_disqualified |-> disq, is_qualified |-> TRUE,
                               current_round |-> 1 ] ]
    /\ exam_sessions = [ p \in Participants |-> [ r \in Rounds |-> NoExamSession ] ]
    /\ responses = [ p \in Participants |-> [ q \in Questions |-> NULL ] ]
    /\ scores = [ p \in Participants |-> [ r \in Rounds |-> NoScore ] ]
    /\ submissions = [ t \in Tokens |-> [ r \in Rounds |-> NoSubmission ] ]
    /\ results = [ t \in Tokens |-> [ r \in Rounds |-> NoRow ] ]
    /\ calls = [ c \in Calls |-> IdleAudited ]
    /\ admin = IdleAdmin
    /\ starting = [ s \in {1} |-> IdleStart ]
    /\ question_count = [ r \in Rounds |-> RequiredQuestions ]
    /\ questions = Uploaded(question_count)
    /\ questionsCache = EmptyCache

AuditUnchanged ==
    UNCHANGED << clock, question_count, questions, questionsCache, event_state, rounds, participants,
                 responses, scores, admin, starting, v4 >>

InvokeAuditedStart(c) ==
    /\ CanInvoke(c)
    /\ \E p \in Participants :
          calls' = [ calls EXCEPT ![c] =
                       [ IdleAudited EXCEPT !.op = "start", !.pc = "se_event",
                                            !.p = p ] ]
    /\ UNCHANGED exam_sessions
    /\ AuditUnchanged

\* the event state is read; the round and the participant are checked
AuditedStartEvent(c) ==
    /\ calls[c].pc = "se_event"
    /\ LET participant == participants[calls[c].p] IN
       calls' = [ calls EXCEPT ![c] =
         IF event_state.round_status # "running"
         THEN AuditedDone(c, 400, FALSE, {})
         ELSE IF ~participant.is_qualified \/ participant.is_disqualified
         THEN AuditedDone(c, 403, FALSE, {})
         ELSE IF participant.current_round > event_state.current_round
         THEN AuditedDone(c, 400, FALSE, {})
         ELSE [ calls[c] EXCEPT !.pc = "se_select",
                                !.round = event_state.current_round ] ]
    /\ UNCHANGED exam_sessions
    /\ AuditUnchanged

\* the existing session, if any, is returned
AuditedStartSelect(c) ==
    /\ calls[c].pc = "se_select"
    /\ LET existingSession == exam_sessions[calls[c].p][calls[c].round] IN
       calls' = [ calls EXCEPT ![c] =
         IF existingSession.exists
         THEN IF existingSession.is_submitted
              THEN AuditedDone(c, 400, FALSE, {})
              ELSE AuditedDone(c, 200, TRUE, {"resumed"})
         ELSE [ calls[c] EXCEPT !.pc = "se_insert" ] ]
    /\ UNCHANGED exam_sessions
    /\ AuditUnchanged

\* INSERT INTO exam_sessions under UNIQUE(participant_id, round_number); the
\* handler then calls auditLog and waits for it
AuditedStartInsert(c) ==
    /\ calls[c].pc = "se_insert"
    /\ IF exam_sessions[calls[c].p][calls[c].round].exists
       THEN /\ calls' = [ calls EXCEPT ![c] = AuditedDone(c, 500, FALSE, {}) ]
            /\ UNCHANGED exam_sessions
       ELSE /\ exam_sessions' =
                 [ exam_sessions EXCEPT ![calls[c].p][calls[c].round].exists = TRUE ]
            /\ calls' = [ calls EXCEPT ![c].pc = "se_audit",
                                        ![c].audit = "pending" ]
    /\ AuditUnchanged

\* the INSERT INTO audit_logs ends, with a row or with an error that auditLog
\* catches; the handler goes on and answers
AuditLogEnds(c) ==
    /\ calls[c].pc = "se_audit"
    /\ \E outcome \in AuditOutcomes :
          calls' = [ calls EXCEPT ![c] =
                       [ AuditedDone(c, 200, TRUE, {"started"})
                           EXCEPT !.audit = outcome ] ]
    /\ UNCHANGED exam_sessions
    /\ AuditUnchanged

\* the steps the server takes by itself
AuditedStartStep(c) ==
    \/ AuditedStartEvent(c)
    \/ AuditedStartSelect(c)
    \/ AuditedStartInsert(c)

NextAudit ==
    \E c \in Calls :
        \/ InvokeAuditedStart(c)
        \/ AuditedStartStep(c)
        \/ AuditLogEnds(c)

\* the server keeps running its handlers; nothing makes the audit write end
SpecAudit ==
    /\ InitAudit
    /\ [][NextAudit]_vars
    /\ \A c \in Calls : WF_vars(AuditedStartStep(c))

\* C39: the result of the operation does not depend on the audit write: a
\* POST /start-exam that has created its session answers 'Exam started'
\* whether the audit write succeeds, fails or never completes.
C39_Original ==
    \A c \in Calls :
        ( calls[c].pc = "se_audit" )
        ~> ( calls[c].pc = "done" /\ calls[c].result.success )


\* ------------------------------------- GET /questions and its questionsCache
\* const CACHE_TTL = 15000, in milliseconds
CACHE_TTL == 15000

\* Date.now(): the clock counts minutes
DateNow == clock * 60000

\* the questions array of POST /bulk-add: none, fifteen complete questions,
\* or fifteen of which one lacks a field
BulkAddInputs == {"empty", "complete", "incomplete"}

IdleGet ==
    [ op |-> "none", pc |-> "idle", round |-> 0, during |-> {}, data |-> {},
      result |-> [ status |-> 0, success |-> FALSE, tags |-> {},
                   questions |-> {} ] ]

GetDone(c, status, success, tags, ids) ==
    [ calls[c] EXCEPT !.pc = "done",
                      !.result = [ status |-> status, success |-> success,
                                   tags |-> tags, questions |-> ids ] ]

IdleBulkAdd ==
    [ op |-> "none", pc |-> "idle", round |-> 0, during |-> {},
      questions |-> "empty", result |-> NoResult ]

BulkAddDone(c, status, success) ==
    [ calls[c] EXCEPT !.pc = "done",
                      !.result = [ status |-> status, success |-> success,
                                   tags |-> {} ] ]

\* the questions of round 1 are uploaded; either the round is still pending,
\* or it has been started and one GET /questions has filled the cache
InitCache ==
    /\ clock = 0
    /\ \E warm \in BOOLEAN :
          /\ event_state =
                IF warm
                THEN [ current_round |-> 1, round_status |-> "running",
                       round_ends_at |-> DurationMinutes ]
                ELSE [ current_round |-> 0, round_status |-> "not_started",
                       round_ends_at |-> NoTime ]
          /\ rounds = [ r \in Rounds |->
                          [ status |-> IF warm THEN "active" ELSE "pending",
                            shortlisting_completed |-> FALSE ] ]
          /\ questionsCache =
                IF warm
                THEN [ round |-> 1, data |-> << QuestionIds(1, RequiredQuestions) >>,
                       timestamp |-> 0 ]
                ELSE EmptyCache
    /\ question_count = [ r \in Rounds |-> RequiredQuestions ]
    /\ questions = Uploaded(question_count)
    /\ participants = [ p \in Participants |->
                          [ is_disqualified |-> FALSE, is_qualified |-> TRUE,
                            current_round |-> 1 ] ]
    /\ exam_sessions = [ p \in Participants |-> [ r \in Rounds |-> NoSession ] ]
    /\ responses = [ p \in Participants |-> [ q \in Questions |-> NULL ] ]
    /\ scores = [ p \in Participants |-> [ r \in Rounds |-> NoScore ] ]
    /\ submissions = [ t \in Tokens |-> [ r \in Rounds |-> NoSubmission ] ]
    /\ results = [ t \in Tokens |-> [ r \in Rounds |-> NoRow ] ]
    /\ calls = [ c \in Calls |-> IdleCall ]
    /\ admin = IdleAdmin
    /\ starting = [ s \in {1} |-> IdleStart ]

CacheUnchanged ==
    UNCHANGED << clock, event_state, rounds, participants, exam_sessions,
                 responses, scores, admin, starting, v4 >>

InvokeGetQuestions(c) ==
    /\ CanInvoke(c)
    /\ calls' = [ calls EXCEPT ![c] =
                    [ IdleGet EXCEPT !.op = "questions", !.pc = "gq_event",
                                     !.during = InFlight ] ]
    /\ UNCHANGED << question_count, questions, questionsCache >>
    /\ CacheUnchanged

\* the event state is read; a cache entry of this round that is younger than
\* CACHE_TTL is returned
GetQuestionsEvent(c) ==
    /\ calls[c].pc = "gq_event"
    /\ calls' = [ calls EXCEPT ![c] =
         IF event_state.round_status # "running"
         THEN GetDone(c, 400, FALSE, {}, {})
         ELSE IF /\ questionsCache.data # NoData
                 /\ questionsCache.round = event_state.current_round
                 /\ DateNow - questionsCache.timestamp < CACHE_TTL
         THEN [ GetDone(c, 200, TRUE, {"cached"}, questionsCache.data[1])
                  EXCEPT !.round = event_state.current_round ]
         ELSE [ calls[c] EXCEPT !.pc = "gq_select",
                                !.round = event_state.current_round ] ]
    /\ UNCHANGED << question_count, questions, questionsCache >>
    /\ CacheUnchanged

\* SELECT id, ... FROM questions WHERE round_number = current_round
GetQuestionsSelect(c) ==
    /\ calls[c].pc = "gq_select"
    /\ calls' = [ calls EXCEPT ![c].pc = "gq_respond",
                               ![c].data = questions[calls[c].round] ]
    /\ UNCHANGED << question_count, questions, questionsCache >>
    /\ CacheUnchanged

\* the rows are formatted, put into the cache and returned
GetQuestionsRespond(c) ==
    /\ calls[c].pc = "gq_respond"
    /\ questionsCache' = [ round |-> calls[c].round, data |-> << calls[c].data >>,
                           timestamp |-> DateNow ]
    /\ calls' = [ calls EXCEPT ![c] = GetDone(c, 200, TRUE, {}, calls[c].data) ]
    /\ UNCHANGED << question_count, questions >>
    /\ CacheUnchanged

\* POST /bulk-add: roundNumber and the questions array are checked
InvokeBulkAdd(c) ==
    /\ CanInvoke(c)
    /\ \E r \in DOMAIN rounds, input \in BulkAddInputs :
          calls' = [ calls EXCEPT ![c] =
             LET call == [ IdleBulkAdd EXCEPT !.op = "bulk_add", !.round = r,
                                              !.questions = input,
                                              !.during = InFlight ]
             IN  IF input = "empty"
                 THEN [ call EXCEPT !.pc = "done",
                                    !.result = [ status |-> 400, success |-> FALSE,
                                                 tags |-> {} ] ]
                 ELSE [ call EXCEPT !.pc = "ba_round" ] ]
    /\ UNCHANGED << question_count, questions, questionsCache >>
    /\ CacheUnchanged

\* Check if round is already started
BulkAddRound(c) ==
    /\ calls[c].pc = "ba_round"
    /\ calls' = [ calls EXCEPT ![c] =
                    IF rounds[calls[c].round].status # "pending"
                    THEN BulkAddDone(c, 400, FALSE)
                    ELSE [ calls[c] EXCEPT !.pc = "ba_delete" ] ]
    /\ UNCHANGED << question_count, questions, questionsCache >>
    /\ CacheUnchanged

\* Delete existing questions for this round; the new ones are validated
BulkAddDelete(c) ==
    /\ calls[c].pc = "ba_delete"
    /\ questions' = [ questions EXCEPT ![calls[c].round] = {} ]
    /\ question_count' = [ question_count EXCEPT ![calls[c].round] = 0 ]
    /\ calls' = [ calls EXCEPT ![c] =
                    IF calls[c].questions = "incomplete"
                    THEN BulkAddDone(c, 400, FALSE)
                    ELSE [ calls[c] EXCEPT !.pc = "ba_insert" ] ]
    /\ UNCHANGED questionsCache
    /\ CacheUnchanged

\* INSERT INTO questions under UNIQUE(round_number, question_number): the rows
\* get new ids; the handler answers
BulkAddInsert(c) ==
    /\ calls[c].pc = "ba_insert"
    /\ IF questions[calls[c].round] # {}
       THEN /\ calls' = [ calls EXCEPT ![c] = BulkAddDone(c, 500, FALSE) ]
            /\ UNCHANGED << question_count, questions >>
       ELSE /\ questions' = [ questions EXCEPT ![calls[c].round] =
                                 QuestionIds(c + 1, RequiredQuestions) ]
            /\ question_count' = [ question_count EXCEPT ![calls[c].round] =
                                      RequiredQuestions ]
            /\ calls' = [ calls EXCEPT ![c] = BulkAddDone(c, 200, TRUE) ]
    /\ UNCHANGED questionsCache
    /\ CacheUnchanged

NextCache ==
    \/ Tick
    \/ \E r \in DOMAIN rounds : rounds[r].status = "pending" /\ StartRoundRequest(r)
    \/ StartRoundCount
    \/ StartRoundEvent
    \/ StartRoundRow
    \/ \E c \in Calls : InvokeReset(c)
    \/ \E c \in Calls : ResetSubmissions(c)
    \/ \E c \in Calls : ResetResults(c)
    \/ \E c \in Calls : ResetRound(c)
    \/ \E c \in Calls : ResetEvent(c)
    \/ \E c \in Calls : InvokeBulkAdd(c)
    \/ \E c \in Calls : BulkAddRound(c)
    \/ \E c \in Calls : BulkAddDelete(c)
    \/ \E c \in Calls : BulkAddInsert(c)
    \/ \E c \in Calls : InvokeGetQuestions(c)
    \/ \E c \in Calls : GetQuestionsEvent(c)
    \/ \E c \in Calls : GetQuestionsSelect(c)
    \/ \E c \in Calls : GetQuestionsRespond(c)

SpecCache == InitCache /\ [][NextCache]_vars

\* every POST /bulk-add had answered before this request arrived
AfterReplacement(c) ==
    \A d \in Calls \ {c} :
        calls[d].op = "bulk_add" => d < c /\ d \notin calls[c].during

\* C40: a GET /questions that is served after the questions of the round
\* were replaced returns only ids that exist in the questions table.
C40_Step ==
    \A c \in Calls :
        ( /\ calls[c].op = "questions"
          /\ calls[c].pc # "done" /\ calls'[c].pc = "done"
          /\ calls'[c].result.success
          /\ AfterReplacement(c) )
        => calls'[c].result.questions \subseteq questions[calls'[c].round]

C40_Original == [][C40_Step]_vars

====
